---- MODULE Spec2Model ----
(***************************************************************************)
(* Model of iCloudMailClient (src/src/lib/icloud-mail-client.ts).          *)
(*                                                                         *)
(* Three specifications share one constructed state:                       *)
(*   Spec         the message fetch-and-parse pipeline of getMessages and  *)
(*                searchMessages, event by event;                          *)
(*   SpecConn     connect(), disconnect() and testConnection();            *)
(*   SpecCriteria the search-criteria translator of searchMessages.        *)
(***************************************************************************)
EXTENDS Integers, Sequences, FiniteSets, TLC

(***************************************************************************)
(* Bounds of the model.                                                    *)
(***************************************************************************)
\* number of messages in the mailbox (sequence numbers 1..MaxMsgs)
MaxMsgs == 3
\* largest limit argument tried
MaxLimit == 3

\* longest mailbox name given to deleteMailbox, in pieces
MaxNameLen == 3
\* most rules given to autoOrganize
MaxRules == 2

\* longest attachment content, in bytes
MaxBytes == 4
\* longest credential, in characters
MaxCredLen == 6

\* JavaScript undefined / null / absent property
Undef == "undefined"

Max(a, b) == IF a >= b THEN a ELSE b
Min(a, b) == IF a <= b THEN a ELSE b

SeqNos == 1..MaxMsgs
Limits == 0..MaxLimit

(***************************************************************************)
(* Strings that the code searches with String.includes are sequences of    *)
(* tokens; a template literal is the concatenation of its parts.           *)
(***************************************************************************)
Includes(msg, tok) == \E i \in 1..Len(msg) : msg[i] = tok

VARIABLES
    \* ---- fetch pipeline (getMessages / searchMessages) ----
    pc,             \* position of the call: idle, openBox, search, fetch, done
    op,             \* "getMessages" or "searchMessages"
    options,        \* the filter arguments of the call
    limit,          \* the limit argument of the call
    searchCriteria, \* criteria handed to imap.search
    searchReply,    \* what the search callback received: none, error, null, ids
    results,        \* identifiers the search callback received
    messageIds,     \* identifiers handed to imap.fetch
    fetchCalls,     \* number of imap.fetch commands issued
    msgState,       \* per sequence number: none, body, parsing, pushed, failed
    attrSeen,       \* per sequence number: attributes event handled
    messages,       \* the local array `messages`
    origin,         \* sequence number each element of messages was parsed from
    fetchErr,       \* fetch 'error' event handled
    fetchEnd,       \* fetch 'end' event handled
    promise,        \* pending, resolved or rejected
    result,         \* the list the promise resolved with, as the awaiting
                    \* caller reads it when its continuation runs
    rejection,      \* the error the promise rejected with
    \* ---- connection manager (connect / disconnect / testConnection) ----
    email,          \* config.email
    imapUser,       \* user of the Imap instance this.imap refers to
    sock,           \* connection of this.imap: closed, connecting, open
    onReady,        \* once('ready') listener on this.imap: none, first, retry
    onError,        \* once('error') listener on this.imap: none, first, retry
    onEnd,          \* once('end') listener on this.imap registered
    attempts,       \* user of every imap.connect() issued, in order
    firstErr,       \* the error the first listener of connect() handled
    connPromise,    \* promise of connect(): none, pending, resolved, rejected
    connRejection,  \* message of the Error connect() rejected with
    closePending,   \* imap.end() was called and no 'end' was emitted since
    endAfterClose,  \* an 'end' event was emitted after imap.end()
    discPromise,    \* promise of disconnect(): none, pending, resolved
    tcPc,           \* testConnection: idle, connect, disconnect, verify, done
    tcLog,          \* steps testConnection started, in order
    verify,         \* transporter.verify(): none, pending, resolved, rejected
    timer,          \* the 30 s timeout: none, armed, fired
    race,           \* Promise.race: none, pending, resolved, rejected
    raceErr,        \* message the race rejected with
    raceLog,        \* settlements of verify() and of the timeout, in order
    tcResult,       \* value testConnection returned
    \* ---- search-criteria translator ----
    critOptions,    \* options given to the translator
    critDone,       \* the translator has run
    critTerms,      \* terms it produced
    \* ---- mutation operations ----
    mOp,            \* operation invoked
    mArgs,          \* its arguments
    mPc,            \* idle, openBox, search, mutate, expunge, addBox, delBox, done
    mCalls,         \* node-imap calls the invocation has issued, in order
    mResults,       \* the results the search callback received
    mPromise,       \* none, pending, resolved, rejected
    mResult,        \* value the promise resolved with
    mRejection,     \* err.message the promise rejected with
    mFailedAt,      \* step that stopped the chain: none, validation, openBox,
                    \* search, empty (nothing matched), mutate, expunge, addBox, delBox
    \* ---- autoOrganize ----
    orgPc,          \* idle, getMessages, awaitMove, done
    orgRules,       \* rules argument
    orgSource,      \* sourceMailbox
    orgDryRun,      \* dryRun argument
    orgMessages,    \* the list getMessages resolved with
    orgIdx,         \* index of the rule whose move is awaited
    orgResults,     \* the results array
    orgMoveLog,     \* how each awaited moveMessages settled
    orgReturn,      \* value autoOrganize returned
    orgFetch,       \* the awaited getMessages: none, pending, resolved, rejected
    \* ---- downloadAttachment ----
    aPc,            \* idle, openBox, search, fetch, done
    aArgs,          \* messageId, attachmentIndex, mailbox
    aBox,           \* the messages of the opened mailbox, as parsed
    aMsgState,      \* per message: none, skipped, body, parsing, done, failed
    aFound,         \* the local variable found
    aFetchErr,      \* the fetch emitted 'error'
    aFetchEnd,      \* the fetch emitted 'end'
    aPromise,       \* none, pending, resolved
    aResult,        \* value the promise resolved with
    \* ---- server: startup and tool dispatch ----
    envEmail,       \* process.env.ICLOUD_EMAIL
    envPassword,    \* process.env.ICLOUD_APP_PASSWORD
    startup,        \* initializeFromEnv: init, absent, connecting, connected, failed
    mailClient,     \* the module variable: null or client
    tPc,            \* the tool call: idle, awaiting, done
    tName,          \* request.params.name
    tArg,           \* whether the required arguments were supplied
    tStartup,       \* value of startup when the call was dispatched
    tInvoked,       \* client methods the call invoked
    tRaised,        \* exception raised inside the try block
    tOutcome,       \* what left the handler: a result or an McpError
    \* ---- two operations in flight on the shared session ----
    pPc,            \* per operation: idle, openBox, search, mutate, expunge, done
    pOp,            \* per operation: the client method called
    pBox,           \* per operation: the mailbox it names
    pLog,           \* per operation: its commands after openBox, each with the
                    \* mailbox that was selected when the server executed it
    pStatus,        \* per operation: status of the result it resolved with
    queue,          \* commands node-imap has queued, in order
    selected        \* the mailbox selected on the connection

fetchVars == <<pc, op, options, limit, searchCriteria, searchReply, results, messageIds,
               fetchCalls, msgState, attrSeen, messages, origin, fetchErr,
               fetchEnd, promise, result, rejection>>
connVars == <<email, imapUser, sock, onReady, onError, onEnd, attempts,
              firstErr, connPromise, connRejection, closePending,
              endAfterClose, discPromise, tcPc, tcLog, verify, timer, race,
              raceErr, raceLog, tcResult>>
critVars == <<critOptions, critDone, critTerms>>
mutVars == <<mOp, mArgs, mPc, mCalls, mResults, mPromise, mResult, mRejection,
             mFailedAt>>
orgVars == <<orgPc, orgRules, orgSource, orgDryRun, orgMessages, orgIdx,
             orgResults, orgMoveLog, orgReturn, orgFetch>>
attVars == <<aPc, aArgs, aBox, aMsgState, aFound, aFetchErr, aFetchEnd, aPromise,
             aResult>>
toolVars == <<envEmail, envPassword, startup, mailClient, tPc, tName, tArg,
              tStartup, tInvoked, tRaised, tOutcome>>
pairVars == <<pPc, pOp, pBox, pLog, pStatus, queue, selected>>
restVars == <<attVars, toolVars, pairVars>>
laterVars == <<mutVars, orgVars, restVars>>
vars == <<fetchVars, connVars, critVars, laterVars>>

(***************************************************************************)
(* Array.prototype.slice(start) with one argument.                         *)
(***************************************************************************)
Slice(s, start) ==
    LET k == IF start < 0 THEN Max(Len(s) + start, 0) ELSE Min(start, Len(s))
    IN SubSeq(s, k + 1, Len(s))

\* the ascending sequence of the members of a set of sequence numbers
RECURSIVE SortedSeq(_)
SortedSeq(S) ==
    IF S = {} THEN <<>>
    ELSE LET m == CHOOSE x \in S : \A y \in S : x <= y
         IN <<m>> \o SortedSeq(S \ {m})

Range(s) == {s[i] : i \in 1..Len(s)}

(***************************************************************************)
(* The search-criteria translator of searchMessages.                       *)
(***************************************************************************)
\* getTime() of an Invalid Date
NaN == -1

\* new Date(str).getTime() for the date strings of the model
NewDate(str) ==
    CASE str = "2024-01-15" -> 1
      [] str = "2024-03-01" -> 2
      [] OTHER -> NaN

\* truthiness of an optional string argument
Truthy(v) == v # Undef /\ v # ""

\* if (cond) searchCriteria.push(term)
PushIf(cond, term) == IF cond THEN <<term>> ELSE <<>>

\* faulty variant: the sender term is pushed before the date terms
SearchCriteriaOfSenderFirst(o) ==
    LET terms ==
            PushIf(o.unreadOnly, <<"UNSEEN">>)
         \o PushIf(Truthy(o.fromEmail), <<"FROM", o.fromEmail>>)
         \o PushIf(Truthy(o.dateFrom) /\ NewDate(o.dateFrom) # NaN,
                   <<"SINCE", NewDate(o.dateFrom)>>)
         \o PushIf(Truthy(o.dateTo) /\ NewDate(o.dateTo) # NaN,
                   <<"BEFORE", NewDate(o.dateTo)>>)
         \o PushIf(Truthy(o.query),
                   <<"OR", <<"SUBJECT", o.query>>, <<"BODY", o.query>>>>)
    IN IF Len(terms) = 0 THEN <<<<"ALL">>>> ELSE terms

\* faulty variant: the isNaN check of the dates is missing
SearchCriteriaOfUncheckedDates(o) ==
    LET terms ==
            PushIf(o.unreadOnly, <<"UNSEEN">>)
         \o PushIf(Truthy(o.dateFrom), <<"SINCE", NewDate(o.dateFrom)>>)
         \o PushIf(Truthy(o.dateTo), <<"BEFORE", NewDate(o.dateTo)>>)
         \o PushIf(Truthy(o.fromEmail), <<"FROM", o.fromEmail>>)
         \o PushIf(Truthy(o.query),
                   <<"OR", <<"SUBJECT", o.query>>, <<"BODY", o.query>>>>)
    IN IF Len(terms) = 0 THEN <<<<"ALL">>>> ELSE terms

\* faulty variant: 'ALL' is appended whatever was produced before
SearchCriteriaOfAlwaysAll(o) ==
    PushIf(o.unreadOnly, <<"UNSEEN">>)
    \o PushIf(Truthy(o.dateFrom) /\ NewDate(o.dateFrom) # NaN,
              <<"SINCE", NewDate(o.dateFrom)>>)
    \o PushIf(Truthy(o.dateTo) /\ NewDate(o.dateTo) # NaN,
              <<"BEFORE", NewDate(o.dateTo)>>)
    \o PushIf(Truthy(o.fromEmail), <<"FROM", o.fromEmail>>)
    \o PushIf(Truthy(o.query),
              <<"OR", <<"SUBJECT", o.query>>, <<"BODY", o.query>>>>)
    \o <<<<"ALL">>>>

SearchCriteriaOf(o) ==
    LET terms ==
            PushIf(o.unreadOnly, <<"UNSEEN">>)
         \o PushIf(Truthy(o.dateFrom) /\ NewDate(o.dateFrom) # NaN,
                   <<"SINCE", NewDate(o.dateFrom)>>)
         \o PushIf(Truthy(o.dateTo) /\ NewDate(o.dateTo) # NaN,
                   <<"BEFORE", NewDate(o.dateTo)>>)
         \o PushIf(Truthy(o.fromEmail), <<"FROM", o.fromEmail>>)
         \o PushIf(Truthy(o.query),
                   <<"OR", <<"SUBJECT", o.query>>, <<"BODY", o.query>>>>)
    IN IF Len(terms) = 0 THEN <<<<"ALL">>>> ELSE terms

\* const searchCriteria = unreadOnly ? ['UNSEEN'] : ['ALL'] of getMessages
GetCriteriaOf(unreadOnly) ==
    IF unreadOnly THEN <<<<"UNSEEN">>>> ELSE <<<<"ALL">>>>

NoFilter == [query |-> Undef, dateFrom |-> Undef, dateTo |-> Undef,
             fromEmail |-> Undef, unreadOnly |-> FALSE]

(***************************************************************************)
(* The record built from a ParsedMail.  A JavaScript value that may be     *)
(* undefined is None or Some(v).                                           *)
(***************************************************************************)
None == <<>>
Some(v) == <<v>>

\* results of simpleParser tried: every optional property present, an
\* HTML-only mail without message-id, and a mail with no property at all;
\* the first message of the mailbox may parse to any of them, the others
\* have every property
ParsedFull(seqno) ==
    [messageId |-> Some(<<"message-id", seqno>>), from |-> Some("a@x"),
     to |-> Some(<<"b@x", "c@x">>), subject |-> Some("subject"),
     text |-> Some("text"), html |-> Some("html"), date |-> Some(seqno),
     attachments |-> 1]
ParsedHtml(seqno) ==
    [messageId |-> None, from |-> Some("a@x"), to |-> None,
     subject |-> Some("subject"), text |-> None, html |-> Some("html"),
     date |-> None, attachments |-> 0]
ParsedBare ==
    [messageId |-> None, from |-> None, to |-> None, subject |-> None,
     text |-> None, html |-> None, date |-> None, attachments |-> 0]
ParsedMails(seqno) ==
    IF seqno = 1 THEN {ParsedFull(seqno), ParsedHtml(seqno), ParsedBare}
    ELSE {ParsedFull(seqno)}

\* a || b
OrElse(a, b) == IF a # None THEN a ELSE b

\* new Date() at the time of the parse
Now == 0

\* getEmailText(addr)
GetEmailText(addr) == IF addr = None THEN Some("") ELSE addr

\* faulty variant: the subject is copied without its '' default
EmailMessageOfNoSubjectDefault(parsed, seqno) ==
    [id |-> OrElse(parsed.messageId, Some(<<"seqno", seqno>>)),
     from |-> GetEmailText(parsed.from),
     to |-> IF parsed.to # None THEN parsed.to ELSE Some(<<>>),
     subject |-> parsed.subject,
     body |-> OrElse(parsed.text, OrElse(parsed.html, Some(""))),
     date |-> OrElse(parsed.date, Some(Now)),
     flags |-> Some(<<>>),
     attachments |-> IF parsed.attachments > 0 THEN Some(parsed.attachments)
                     ELSE None]

EmailMessageOf(parsed, seqno) ==
    [id |-> OrElse(parsed.messageId, Some(<<"seqno", seqno>>)),
     from |-> GetEmailText(parsed.from),
     to |-> IF parsed.to # None THEN parsed.to ELSE Some(<<>>),
     subject |-> OrElse(parsed.subject, Some("")),
     body |-> OrElse(parsed.text, OrElse(parsed.html, Some(""))),
     date |-> OrElse(parsed.date, Some(Now)),
     flags |-> Some(<<>>),
     attachments |-> IF parsed.attachments > 0 THEN Some(parsed.attachments)
                     ELSE None]

\* the flags the server holds for message n
ServerFlags(n) ==
    IF n % 2 = 1 THEN <<"\\Seen">> ELSE <<"\\Seen", "\\Flagged">>

\* what the attributes event of message n may carry (attrs.flags may be absent)
AttrFlagsOf(n) == {None, Some(ServerFlags(n))}

\* flags an attributes event may carry
AttrFlags == {None} \cup {Some(ServerFlags(n)) : n \in SeqNos}

\* arguments tried for searchMessages in the pipeline
PipelineFilters == {[NoFilter EXCEPT !.query = "q", !.unreadOnly = TRUE]}

(***************************************************************************)
(* State after construction.                                               *)
(***************************************************************************)
InitFetch ==
    /\ pc = "idle"
    /\ op = "none"
    /\ options = NoFilter
    /\ limit = 0
    /\ searchCriteria = <<>>
    /\ searchReply = "none"
    /\ results = <<>>
    /\ messageIds = <<>>
    /\ fetchCalls = 0
    /\ msgState = [n \in SeqNos |-> "none"]
    /\ attrSeen = [n \in SeqNos |-> FALSE]
    /\ messages = <<>>
    /\ origin = <<>>
    /\ fetchErr = FALSE
    /\ fetchEnd = FALSE
    /\ promise = "none"
    /\ result = <<>>
    /\ rejection = "none"

(***************************************************************************)
(* getMessages / searchMessages, one action per callback or event handler. *)
(***************************************************************************)
\* getMessages(mailbox, limit, unreadOnly): new Promise, imap.openBox
GetMessages(l, unreadOnly) ==
    /\ pc = "idle"
    /\ op' = "getMessages"
    /\ options' = [NoFilter EXCEPT !.unreadOnly = unreadOnly]
    /\ limit' = l
    /\ promise' = "pending"
    /\ pc' = "openBox"
    /\ UNCHANGED <<searchCriteria, searchReply, results, messageIds, fetchCalls, msgState,
                   attrSeen, messages, origin, fetchErr, fetchEnd, result,
                   rejection, connVars, critVars, laterVars>>

\* searchMessages(options): new Promise, imap.openBox
SearchMessages(l, o) ==
    /\ pc = "idle"
    /\ op' = "searchMessages"
    /\ options' = o
    /\ limit' = l
    /\ promise' = "pending"
    /\ pc' = "openBox"
    /\ UNCHANGED <<searchCriteria, searchReply, results, messageIds, fetchCalls, msgState,
                   attrSeen, messages, origin, fetchErr, fetchEnd, result,
                   rejection, connVars, critVars, laterVars>>

\* the openBox callback: reject(err), or build the criteria and imap.search
OpenBoxCb(err) ==
    /\ pc = "openBox"
    /\ IF err
       THEN /\ promise' = "rejected"
            /\ rejection' = "openBoxError"
            /\ pc' = "done"
            /\ UNCHANGED searchCriteria
       ELSE /\ searchCriteria' = IF op = "getMessages"
                                 THEN GetCriteriaOf(options.unreadOnly)
                                 ELSE SearchCriteriaOf(options)
            /\ pc' = "search"
            /\ UNCHANGED <<promise, rejection>>
    /\ UNCHANGED <<op, options, limit, searchReply, results, messageIds,
                   fetchCalls, msgState, attrSeen, messages, origin, fetchErr,
                   fetchEnd, result, connVars, critVars, laterVars>>

\* faulty variant: the empty-result check is missing, the fetch is issued
SearchCbWithoutEmptyCheck(err, res) ==
    /\ pc = "search"
    /\ searchReply' = IF err THEN "error" ELSE IF res = None THEN "null"
                      ELSE "ids"
    /\ IF err
       THEN /\ promise' = "rejected"
            /\ rejection' = "searchError"
            /\ pc' = "done"
            /\ UNCHANGED <<results, messageIds, fetchCalls, result>>
       ELSE /\ results' = IF res = None THEN <<>> ELSE res[1]
            /\ messageIds' = Slice(results', 0 - limit)
            /\ fetchCalls' = fetchCalls + 1
            /\ pc' = "fetch"
            /\ UNCHANGED <<promise, result, rejection>>
    /\ UNCHANGED <<op, options, limit, searchCriteria, msgState, attrSeen,
                   messages, origin, fetchErr, fetchEnd, connVars, critVars, laterVars>>

\* the search callback: reject(err), resolve([]) or imap.fetch of the last
\* `limit` identifiers; res is None for a missing results argument
SearchCb(err, res) ==
    /\ pc = "search"
    /\ searchReply' = IF err THEN "error" ELSE IF res = None THEN "null"
                      ELSE "ids"
    /\ IF err
       THEN /\ promise' = "rejected"
            /\ rejection' = "searchError"
            /\ pc' = "done"
            /\ UNCHANGED <<results, messageIds, fetchCalls, result>>
       ELSE IF res = None \/ Len(res[1]) = 0
       THEN /\ promise' = "resolved"
            /\ result' = <<>>
            /\ pc' = "done"
            /\ results' = IF res = None THEN <<>> ELSE res[1]
            /\ UNCHANGED <<messageIds, fetchCalls, rejection>>
       ELSE /\ results' = res[1]
            /\ messageIds' = Slice(res[1], 0 - limit)
            /\ fetchCalls' = fetchCalls + 1
            /\ pc' = "fetch"
            /\ UNCHANGED <<promise, result, rejection>>
    /\ UNCHANGED <<op, options, limit, searchCriteria, msgState, attrSeen,
                   messages, origin, fetchErr, fetchEnd, connVars, critVars, laterVars>>

\* messages are delivered in the order of the fetched identifiers
NextToDeliver(n) ==
    \E i \in 1..Len(messageIds) :
        /\ messageIds[i] = n
        /\ msgState[n] = "none"
        /\ \A j \in 1..(i - 1) : msgState[messageIds[j]] # "none"

\* fetch.on('message') and msg.on('body'): the handlers of one message are
\* registered and its body starts streaming
FetchMessage(n) ==
    /\ pc = "fetch"
    /\ ~fetchErr /\ ~fetchEnd
    /\ NextToDeliver(n)
    /\ msgState' = [msgState EXCEPT ![n] = "body"]
    /\ UNCHANGED <<pc, op, options, limit, searchCriteria, searchReply, results,
                   messageIds, fetchCalls, attrSeen, messages, origin,
                   fetchErr, fetchEnd, promise, result, rejection, connVars,
                   critVars, laterVars>>

\* stream.once('end'): simpleParser(emailData) is started and awaited
BodyEnd(n) ==
    /\ pc = "fetch"
    /\ msgState[n] = "body"
    /\ msgState' = [msgState EXCEPT ![n] = "parsing"]
    /\ UNCHANGED <<pc, op, options, limit, searchCriteria, searchReply, results,
                   messageIds, fetchCalls, attrSeen, messages, origin,
                   fetchErr, fetchEnd, promise, result, rejection, connVars,
                   critVars, laterVars>>

\* the continuation after await simpleParser: messages.push(emailMessage)
ParseOk(n, parsed) ==
    /\ pc = "fetch"
    /\ msgState[n] = "parsing"
    /\ messages' = Append(messages, EmailMessageOf(parsed, n))
    /\ origin' = Append(origin, n)
    /\ msgState' = [msgState EXCEPT ![n] = "pushed"]
    /\ UNCHANGED <<pc, op, options, limit, searchCriteria, searchReply, results,
                   messageIds, fetchCalls, attrSeen, fetchErr, fetchEnd,
                   promise, result, rejection, connVars, critVars, laterVars>>

\* catch (parseError): the error is logged, nothing is pushed
ParseFail(n) ==
    /\ pc = "fetch"
    /\ msgState[n] = "parsing"
    /\ msgState' = [msgState EXCEPT ![n] = "failed"]
    /\ UNCHANGED <<pc, op, options, limit, searchCriteria, searchReply, results,
                   messageIds, fetchCalls, attrSeen, messages, origin,
                   fetchErr, fetchEnd, promise, result, rejection, connVars,
                   critVars, laterVars>>

\* faulty variant: flags go to the record built from the event's own message
AttributesToOwnRecord(n, flags) ==
    /\ pc = "fetch"
    /\ ~fetchErr /\ ~fetchEnd
    /\ msgState[n] # "none"
    /\ ~attrSeen[n]
    /\ attrSeen' = [attrSeen EXCEPT ![n] = TRUE]
    /\ messages' = IF flags # None /\ \E i \in 1..Len(messages) : origin[i] = n
                   THEN LET i == CHOOSE i \in 1..Len(messages) : origin[i] = n
                        IN [messages EXCEPT ![i].flags = flags]
                   ELSE messages
    /\ UNCHANGED <<pc, op, options, limit, searchCriteria, searchReply, results,
                   messageIds, fetchCalls, msgState, origin, fetchErr,
                   fetchEnd, promise, result, rejection, connVars, critVars, laterVars>>

\* msg.once('attributes'): flags go to the last element of messages
Attributes(n, flags) ==
    /\ pc = "fetch"
    /\ ~fetchErr /\ ~fetchEnd
    /\ msgState[n] # "none"
    /\ ~attrSeen[n]
    /\ attrSeen' = [attrSeen EXCEPT ![n] = TRUE]
    /\ messages' = IF flags # None /\ Len(messages) > 0
                   THEN [messages EXCEPT ![Len(messages)].flags = flags]
                   ELSE messages
    /\ UNCHANGED <<pc, op, options, limit, searchCriteria, searchReply, results,
                   messageIds, fetchCalls, msgState, origin, fetchErr,
                   fetchEnd, promise, result, rejection, connVars, critVars, laterVars>>

\* faulty variant: the fetch error is noted but the promise is not rejected
FetchErrorNotRejecting ==
    /\ pc = "fetch"
    /\ ~fetchErr /\ ~fetchEnd
    /\ fetchErr' = TRUE
    /\ UNCHANGED <<pc, op, options, limit, searchCriteria, searchReply,
                   results, messageIds, fetchCalls, msgState, attrSeen,
                   messages, origin, fetchEnd, promise, result, rejection,
                   connVars, critVars, laterVars>>

\* fetch.once('error'): reject(fetchErr); a settled promise stays settled
FetchError ==
    /\ pc = "fetch"
    /\ ~fetchErr /\ ~fetchEnd
    /\ fetchErr' = TRUE
    /\ IF promise = "pending"
       THEN promise' = "rejected" /\ rejection' = "fetchError"
       ELSE UNCHANGED <<promise, rejection>>
    /\ UNCHANGED <<pc, op, options, limit, searchCriteria, searchReply, results,
                   messageIds, fetchCalls, msgState, attrSeen, messages,
                   origin, fetchEnd, result, connVars, critVars, laterVars>>

\* the fetch command is complete: every message and its attributes were
\* delivered, or the command failed
FetchComplete ==
    \/ fetchErr
    \/ \A i \in 1..Len(messageIds) :
          msgState[messageIds[i]] # "none" /\ attrSeen[messageIds[i]]

\* fetch.once('end'): resolve(messages); a settled promise stays settled
FetchEnd ==
    /\ pc = "fetch"
    /\ ~fetchEnd
    /\ FetchComplete
    /\ fetchEnd' = TRUE
    /\ IF promise = "pending"
       THEN promise' = "resolved" /\ result' = messages
       ELSE UNCHANGED <<promise, result>>
    /\ UNCHANGED <<pc, op, options, limit, searchCriteria, searchReply, results,
                   messageIds, fetchCalls, msgState, attrSeen, messages,
                   origin, fetchErr, rejection, connVars, critVars, laterVars>>

\* what the search callback may receive: no results argument, or the
\* ascending identifiers of any set of messages of the mailbox
SearchResults == {None} \cup {Some(SortedSeq(S)) : S \in SUBSET SeqNos}

(***************************************************************************)
(* Connection manager.                                                     *)
(***************************************************************************)
\* email.indexOf('@'), 0-based, -1 when absent
IndexOfAt(e) ==
    IF \E i \in 1..Len(e) : e[i] = "@"
    THEN (CHOOSE i \in 1..Len(e) :
             e[i] = "@" /\ \A j \in 1..(i - 1) : e[j] # "@") - 1
    ELSE -1

\* extractEmailName(email)
extractEmailName(e) ==
    LET atIndex == IndexOfAt(e)
    IN IF atIndex > 0 THEN SubSeq(e, 1, atIndex) ELSE e

\* config.email values tried, as sequences of characters
Emails == {<<"j", "o", "@", "x">>, <<"j", "o">>, <<"@", "x">>, <<>>}

\* messages of the errors the IMAP connection or the SMTP transport raise
RawErrors == {<<"Invalid credentials">>, <<"Failed to ", "authenticate">>,
              <<"connect ", "ECONNREFUSED">>, <<"getaddrinfo ", "ENOTFOUND">>,
              <<"read ECONNRESET">>}

\* err.message.includes('authenticate') || includes('Invalid credentials')
CredentialFailure(msg) ==
    Includes(msg, "authenticate") \/ Includes(msg, "Invalid credentials")

NetworkFailure(msg) ==
    \/ Includes(msg, "timeout")
    \/ Includes(msg, "ENOTFOUND")
    \/ Includes(msg, "ECONNREFUSED")

\* `IMAP connection failed: ${err.message}`
ConnectionFailedMsg(err) == <<"IMAP connection failed: ">> \o err

\* `IMAP authentication failed. Please check ... Details: ${retryErr.message}`
AuthFailedMsg(err) ==
    <<"IMAP authentication failed. ",
      "Please check your app-specific password and ensure two-factor authentication is enabled. ",
      "Details: ">> \o err

TimeoutMsg == <<"SMTP verification ", "timeout", " after 30 seconds">>

\* faulty variant: ECONNREFUSED is not among the network signatures
HelpfulMessageWithoutConnRefused(errorMessage) ==
    IF CredentialFailure(errorMessage)
    THEN errorMessage \o <<"Troubleshooting: app-specific password">>
    ELSE IF Includes(errorMessage, "timeout")
            \/ Includes(errorMessage, "ENOTFOUND")
    THEN errorMessage \o <<"Troubleshooting: internet connection">>
    ELSE errorMessage

\* the catch block of testConnection
HelpfulMessage(errorMessage) ==
    IF CredentialFailure(errorMessage)
    THEN errorMessage \o <<"Troubleshooting: app-specific password">>
    ELSE IF NetworkFailure(errorMessage)
    THEN errorMessage \o <<"Troubleshooting: internet connection">>
    ELSE errorMessage

SuccessResult ==
    [status |-> "success",
     message |-> <<"Email connection test successful - both IMAP and SMTP are working">>]
ErrorResult(errorMessage) ==
    [status |-> "error", message |-> HelpfulMessage(errorMessage)]

\* the constructor: this.imap uses the name part of the email
InitConn(e) ==
    /\ email = e
    /\ imapUser = extractEmailName(e)
    /\ sock = "closed"
    /\ onReady = "none"
    /\ onError = "none"
    /\ onEnd = FALSE
    /\ attempts = <<>>
    /\ firstErr = None
    /\ connPromise = "none"
    /\ connRejection = <<>>
    /\ closePending = FALSE
    /\ endAfterClose = FALSE
    /\ discPromise = "none"
    /\ tcPc = "idle"
    /\ tcLog = <<>>
    /\ verify = "none"
    /\ timer = "none"
    /\ race = "none"
    /\ raceErr = <<>>
    /\ raceLog = <<>>
    /\ tcResult = [status |-> "none", message |-> <<>>]

\* connect(): both listeners are registered and imap.connect() is called
ConnectBody ==
    /\ onReady' = "first"
    /\ onError' = "first"
    /\ attempts' = Append(attempts, imapUser)
    /\ sock' = "connecting"
    /\ connPromise' = "pending"

\* faulty variant: disconnect() resolves without waiting for 'end'
DisconnectBodyNotWaiting ==
    /\ onEnd' = FALSE
    /\ closePending' = TRUE
    /\ endAfterClose' = FALSE
    /\ discPromise' = "resolved"

\* disconnect(): the 'end' listener is registered and imap.end() is called
DisconnectBody ==
    /\ onEnd' = TRUE
    /\ closePending' = TRUE
    /\ endAfterClose' = FALSE
    /\ discPromise' = "pending"

\* a caller other than testConnection calls connect()
Connect ==
    /\ tcPc = "idle"
    /\ connPromise = "none"
    /\ ConnectBody
    /\ UNCHANGED <<email, imapUser, onEnd, firstErr, connRejection,
                   closePending, endAfterClose, discPromise, tcPc, tcLog,
                   verify, timer, race, raceErr, raceLog, tcResult, fetchVars,
                   critVars, laterVars>>

\* a caller other than testConnection calls disconnect()
Disconnect ==
    /\ tcPc = "idle"
    /\ connPromise # "pending"
    /\ discPromise = "none"
    /\ DisconnectBody
    /\ UNCHANGED <<email, imapUser, sock, onReady, onError, attempts,
                   firstErr, connPromise, connRejection, tcPc, tcLog, verify,
                   timer, race, raceErr, raceLog, tcResult, fetchVars, critVars, laterVars>>

\* 'ready' on this.imap: the listener of connect() resolves
ImapReady ==
    /\ sock = "connecting"
    /\ sock' = "open"
    /\ onReady' = "none"
    /\ connPromise' = IF onReady # "none" /\ connPromise = "pending"
                      THEN "resolved" ELSE connPromise
    /\ UNCHANGED <<email, imapUser, onError, onEnd, attempts, firstErr,
                   connRejection, closePending, endAfterClose, discPromise,
                   tcPc, tcLog, verify, timer, race, raceErr, raceLog, tcResult,
                   fetchVars, critVars, laterVars>>

\* faulty variant: the first listener retries after any error
ImapErrorRetryingAnyError(err) ==
    /\ sock \in {"connecting", "open"}
    /\ onError # "none"
    /\ sock = "open" => ~CredentialFailure(err)
    /\ IF onError = "first"
       THEN /\ firstErr' = Some([message |-> err, during |-> sock])
            /\ imapUser' = email
            /\ onReady' = "retry"
            /\ onError' = "retry"
            /\ attempts' = Append(attempts, email)
            /\ sock' = "connecting"
            /\ UNCHANGED <<connPromise, connRejection>>
       ELSE /\ onError' = "none"
            /\ sock' = "closed"
            /\ IF connPromise = "pending"
               THEN /\ connPromise' = "rejected"
                    /\ connRejection' = AuthFailedMsg(err)
               ELSE UNCHANGED <<connPromise, connRejection>>
            /\ UNCHANGED <<imapUser, onReady, attempts, firstErr>>
    /\ UNCHANGED <<email, onEnd, closePending, endAfterClose, discPromise,
                   tcPc, tcLog, verify, timer, race, raceErr, raceLog,
                   tcResult, fetchVars, critVars, laterVars>>

\* 'error' on this.imap, handled by the listener connect() registered; an
\* open connection no longer raises authentication errors
ImapError(err) ==
    /\ sock \in {"connecting", "open"}
    /\ onError # "none"
    /\ sock = "open" => ~CredentialFailure(err)
    /\ IF onError = "first"
       THEN /\ firstErr' = Some([message |-> err, during |-> sock])
            /\ IF CredentialFailure(err)
               THEN /\ imapUser' = email
                    /\ onReady' = "retry"
                    /\ onError' = "retry"
                    /\ attempts' = Append(attempts, email)
                    /\ sock' = "connecting"
                    /\ UNCHANGED <<connPromise, connRejection>>
               ELSE /\ onError' = "none"
                    /\ sock' = "closed"
                    /\ IF connPromise = "pending"
                       THEN /\ connPromise' = "rejected"
                            /\ connRejection' = ConnectionFailedMsg(err)
                       ELSE UNCHANGED <<connPromise, connRejection>>
                    /\ UNCHANGED <<imapUser, onReady, attempts>>
       ELSE /\ onError' = "none"
            /\ sock' = "closed"
            /\ IF connPromise = "pending"
               THEN /\ connPromise' = "rejected"
                    /\ connRejection' = AuthFailedMsg(err)
               ELSE UNCHANGED <<connPromise, connRejection>>
            /\ UNCHANGED <<imapUser, onReady, attempts, firstErr>>
    /\ UNCHANGED <<email, onEnd, closePending, endAfterClose, discPromise,
                   tcPc, tcLog, verify, timer, race, raceErr, raceLog, tcResult,
                   fetchVars, critVars, laterVars>>

\* 'end' on this.imap: after imap.end(), or because the server closed an
\* open connection; the listener of disconnect() resolves
ImapEnd ==
    /\ sock = "open" \/ closePending
    /\ sock' = "closed"
    /\ closePending' = FALSE
    /\ endAfterClose' = (endAfterClose \/ closePending)
    /\ onEnd' = FALSE
    /\ discPromise' = IF onEnd THEN "resolved" ELSE discPromise
    /\ UNCHANGED <<email, imapUser, onReady, onError, attempts, firstErr,
                   connPromise, connRejection, tcPc, tcLog, verify, timer,
                   race, raceErr, raceLog, tcResult, fetchVars, critVars, laterVars>>

\* testConnection(): await this.connect()
TestConnection ==
    /\ tcPc = "idle"
    /\ connPromise = "none"
    /\ discPromise = "none"
    /\ ConnectBody
    /\ tcPc' = "connect"
    /\ tcLog' = Append(tcLog, "connect")
    /\ UNCHANGED <<email, imapUser, onEnd, firstErr, connRejection,
                   closePending, endAfterClose, discPromise, verify, timer,
                   race, raceErr, raceLog, tcResult, fetchVars, critVars, laterVars>>

\* connect() resolved: await this.disconnect()
TcConnected ==
    /\ tcPc = "connect"
    /\ connPromise = "resolved"
    /\ DisconnectBody
    /\ tcPc' = "disconnect"
    /\ tcLog' = Append(tcLog, "disconnect")
    /\ UNCHANGED <<email, imapUser, sock, onReady, onError, attempts,
                   firstErr, connPromise, connRejection, verify, timer, race,
                   raceErr, raceLog, tcResult, fetchVars, critVars, laterVars>>

\* connect() rejected: the catch block returns the error result
TcConnectFailed ==
    /\ tcPc = "connect"
    /\ connPromise = "rejected"
    /\ tcResult' = ErrorResult(connRejection)
    /\ tcPc' = "done"
    /\ UNCHANGED <<email, imapUser, sock, onReady, onError, onEnd, attempts,
                   firstErr, connPromise, connRejection, closePending,
                   endAfterClose, discPromise, tcLog, verify, timer, race,
                   raceErr, raceLog, fetchVars, critVars, laterVars>>

\* disconnect() resolved: await Promise.race([verify(), timeout])
TcDisconnected ==
    /\ tcPc = "disconnect"
    /\ discPromise = "resolved"
    /\ verify' = "pending"
    /\ timer' = "armed"
    /\ race' = "pending"
    /\ tcPc' = "verify"
    /\ tcLog' = Append(tcLog, "verify")
    /\ UNCHANGED <<email, imapUser, sock, onReady, onError, onEnd, attempts,
                   firstErr, connPromise, connRejection, closePending,
                   endAfterClose, discPromise, raceErr, raceLog, tcResult, fetchVars,
                   critVars, laterVars>>

\* transporter.verify() settles; the race settles with it if still pending
VerifySettles(ok, err) ==
    /\ verify = "pending"
    /\ verify' = IF ok THEN "resolved" ELSE "rejected"
    /\ raceLog' = Append(raceLog, IF ok THEN "verifyResolved"
                                  ELSE "verifyRejected")
    /\ IF race = "pending"
       THEN /\ race' = IF ok THEN "resolved" ELSE "rejected"
            /\ raceErr' = IF ok THEN raceErr ELSE err
       ELSE UNCHANGED <<race, raceErr>>
    /\ UNCHANGED <<email, imapUser, sock, onReady, onError, onEnd, attempts,
                   firstErr, connPromise, connRejection, closePending,
                   endAfterClose, discPromise, tcPc, tcLog, timer, tcResult,
                   fetchVars, critVars, laterVars>>

\* the setTimeout callback rejects; the race rejects if still pending
TimerFires ==
    /\ timer = "armed"
    /\ timer' = "fired"
    /\ raceLog' = Append(raceLog, "timeout")
    /\ IF race = "pending"
       THEN race' = "rejected" /\ raceErr' = TimeoutMsg
       ELSE UNCHANGED <<race, raceErr>>
    /\ UNCHANGED <<email, imapUser, sock, onReady, onError, onEnd, attempts,
                   firstErr, connPromise, connRejection, closePending,
                   endAfterClose, discPromise, tcPc, tcLog, verify, tcResult,
                   fetchVars, critVars, laterVars>>

\* faulty variant: success whenever verify() resolved, whatever the race
TcRaceSettledIgnoringTimeout ==
    /\ tcPc = "verify"
    /\ race \in {"resolved", "rejected"}
    /\ tcResult' = IF verify = "resolved" THEN SuccessResult
                   ELSE ErrorResult(raceErr)
    /\ tcPc' = "done"
    /\ UNCHANGED <<email, imapUser, sock, onReady, onError, onEnd, attempts,
                   firstErr, connPromise, connRejection, closePending,
                   endAfterClose, discPromise, tcLog, verify, timer, race,
                   raceErr, raceLog, fetchVars, critVars, laterVars>>

\* the race settled: return the success result, or the catch block
TcRaceSettled ==
    /\ tcPc = "verify"
    /\ race \in {"resolved", "rejected"}
    /\ tcResult' = IF race = "resolved" THEN SuccessResult
                   ELSE ErrorResult(raceErr)
    /\ tcPc' = "done"
    /\ UNCHANGED <<email, imapUser, sock, onReady, onError, onEnd, attempts,
                   firstErr, connPromise, connRejection, closePending,
                   endAfterClose, discPromise, tcLog, verify, timer, race,
                   raceErr, raceLog, fetchVars, critVars, laterVars>>

NextConn ==
    \/ Connect
    \/ Disconnect
    \/ ImapReady
    \/ \E err \in RawErrors : ImapError(err)
    \/ ImapEnd
    \/ TestConnection
    \/ TcConnected
    \/ TcConnectFailed
    \/ TcDisconnected
    \/ \E ok \in BOOLEAN, err \in RawErrors : VerifySettles(ok, err)
    \/ TimerFires
    \/ TcRaceSettled

(***************************************************************************)
(* The translator applied to every filter of the bounded input space.      *)
(***************************************************************************)
QueryArgs == {Undef, "", "q"}
FromArgs == {Undef, "", "a@x"}
DateArgs == {Undef, "", "2024-01-15", "2024-03-01", "not-a-date"}

SearchFilters ==
    [query : QueryArgs, dateFrom : DateArgs, dateTo : DateArgs,
     fromEmail : FromArgs, unreadOnly : BOOLEAN]

InitCriteria(o) ==
    /\ critOptions = o
    /\ critDone = FALSE
    /\ critTerms = <<>>

\* the criteria block of the openBox callback of searchMessages
Translate ==
    /\ ~critDone
    /\ critDone' = TRUE
    /\ critTerms' = SearchCriteriaOf(critOptions)
    /\ UNCHANGED <<critOptions, fetchVars, connVars, laterVars>>

NextCriteria == Translate

(***************************************************************************)
(* Mutation operations: markAsRead, createMailbox, deleteMailbox,          *)
(* moveMessages, deleteMessages, setFlags.  Each is a chain of node-imap   *)
(* calls whose callbacks are the actions below; mCalls lists the protocol  *)
(* calls the current invocation has issued.                                *)
(***************************************************************************)
Mailboxes == {"INBOX", "Work"}
MailboxArgs == Mailboxes \cup {Undef}
\* default parameter mailbox = 'INBOX'
MailboxOrDefault(m) == IF m = Undef THEN "INBOX" ELSE m
\* the messageIds argument (string[])
IdLists == {<<>>, <<"1">>, <<"2", "3">>}
FlagLists == {<<"\\Flagged">>, <<"\\Seen", "\\Flagged">>}
ActionArgs == {Undef, "add", "remove"}
\* default parameter action = 'add'
ActionOrDefault(a) == IF a = Undef THEN "add" ELSE a

\* a mailbox name given to deleteMailbox is a sequence of these pieces
NameTokens == {" ", "INBOX", "Sent", "Trash", "Drafts", "Junk", "inbox", "Work"}
Names == UNION {[1..n -> NameTokens] : n \in 0..MaxNameLen}

\* String.prototype.trim
RECURSIVE TrimStart(_)
TrimStart(s) ==
    IF Len(s) > 0 /\ s[1] = " " THEN TrimStart(Tail(s)) ELSE s
RECURSIVE TrimEnd(_)
TrimEnd(s) ==
    IF Len(s) > 0 /\ s[Len(s)] = " "
    THEN TrimEnd(SubSeq(s, 1, Len(s) - 1))
    ELSE s
\* faulty variant: only leading whitespace is removed
TrimOnlyStart(s) == TrimStart(s)
Trim(s) == TrimEnd(TrimStart(s))

systemMailboxes == {<<"INBOX">>, <<"Sent">>, <<"Trash">>, <<"Drafts">>, <<"Junk">>}

\* err.message of an error node-imap hands to a callback
MutErrors == {<<"NO failure">>}
DelBoxErrors == {<<"NO failure">>,
                 <<"Mailbox ", "does not exist">>,
                 <<"Mailbox is ", "not empty">>,
                 <<"permission", " denied">>}
ErrArgs(S) == {None} \cup {Some(e) : e \in S}

\* reply of search(['ALL']) on a mailbox holding n messages
AllResults == {[i \in 1..n |-> i] : n \in 0..MaxMsgs}

\* Array.prototype.join(', ')
RECURSIVE Join(_)
Join(s) ==
    IF Len(s) = 0 THEN <<>>
    ELSE IF Len(s) = 1 THEN <<s[1]>>
    ELSE <<s[1], ", ">> \o Join(Tail(s))

NoArgs ==
    [messageIds |-> <<>>, mailbox |-> "", dest |-> "", flags |-> <<>>,
     action |-> "", name |-> <<>>]
NoCall ==
    [cmd |-> "", box |-> "", readOnly |-> FALSE, criteria |-> <<>>,
     targets |-> <<>>, flags |-> <<>>, dest |-> "", name |-> <<>>]
OpenBoxCall(box) == [NoCall EXCEPT !.cmd = "openBox", !.box = box]
SearchCall == [NoCall EXCEPT !.cmd = "search", !.criteria = <<"ALL">>]
FlagsCall(cmd, targets, flags) ==
    [NoCall EXCEPT !.cmd = cmd, !.targets = targets, !.flags = flags]
MoveCall(targets, dest) ==
    [NoCall EXCEPT !.cmd = "move", !.targets = targets, !.dest = dest]
ExpungeCall == [NoCall EXCEPT !.cmd = "expunge"]
AddBoxCall(name) == [NoCall EXCEPT !.cmd = "addBox", !.name = name]
DelBoxCall(name) == [NoCall EXCEPT !.cmd = "delBox", !.name = name]

NoResult == [status |-> "none", message |-> <<>>]
\* the value of a Promise<void>
VoidResult == [status |-> "void", message |-> <<>>]
OpError(message) == [status |-> "error", message |-> message]
OpSuccess(message) == [status |-> "success", message |-> message]

InitMut ==
    /\ mOp = "none"
    /\ mArgs = NoArgs
    /\ mPc = "idle"
    /\ mCalls = <<>>
    /\ mResults = <<>>
    /\ mPromise = "none"
    /\ mResult = NoResult
    /\ mRejection = <<>>
    /\ mFailedAt = "none"

\* resolve(value) / reject(err) of the promise the operation returned
MutResolve(value) ==
    /\ mPromise' = "resolved"
    /\ mResult' = value
    /\ mPc' = "done"
    /\ UNCHANGED mRejection
MutReject(err) ==
    /\ mPromise' = "rejected"
    /\ mRejection' = err
    /\ mPc' = "done"
    /\ UNCHANGED mResult

\* new Promise(...) whose executor calls openBox(mailbox, false, cb)
MutBegin(o, args) ==
    /\ mOp' = o
    /\ mArgs' = args
    /\ mPc' = "openBox"
    /\ mCalls' = <<OpenBoxCall(args.mailbox)>>
    /\ mResults' = <<>>
    /\ mPromise' = "pending"
    /\ mResult' = NoResult
    /\ mRejection' = <<>>
    /\ mFailedAt' = "none"

MarkAsRead(ids, mailbox) ==
    /\ mPc = "idle"
    /\ MutBegin("markAsRead",
                [NoArgs EXCEPT !.messageIds = ids,
                               !.mailbox = MailboxOrDefault(mailbox)])
    /\ UNCHANGED <<fetchVars, connVars, critVars, orgVars, restVars>>

MoveMessagesBody(ids, sourceMailbox, destinationMailbox) ==
    MutBegin("moveMessages",
             [NoArgs EXCEPT !.messageIds = ids,
                            !.mailbox = sourceMailbox,
                            !.dest = destinationMailbox])

MoveMessages(ids, sourceMailbox, destinationMailbox) ==
    /\ mPc = "idle"
    /\ MoveMessagesBody(ids, sourceMailbox, destinationMailbox)
    /\ UNCHANGED <<fetchVars, connVars, critVars, orgVars, restVars>>

DeleteMessages(ids, mailbox) ==
    /\ mPc = "idle"
    /\ MutBegin("deleteMessages",
                [NoArgs EXCEPT !.messageIds = ids,
                               !.mailbox = MailboxOrDefault(mailbox)])
    /\ UNCHANGED <<fetchVars, connVars, critVars, orgVars, restVars>>

SetFlags(ids, flags, mailbox, action) ==
    /\ mPc = "idle"
    /\ MutBegin("setFlags",
                [NoArgs EXCEPT !.messageIds = ids,
                               !.flags = flags,
                               !.mailbox = MailboxOrDefault(mailbox),
                               !.action = ActionOrDefault(action)])
    /\ UNCHANGED <<fetchVars, connVars, critVars, orgVars, restVars>>

OpenFailedMessage(err) ==
    IF mOp = "moveMessages"
    THEN <<"Failed to open source mailbox '", mArgs.mailbox, "': ">> \o err
    ELSE <<"Failed to open mailbox '", mArgs.mailbox, "': ">> \o err

MutOpenBoxCb(err) ==
    /\ mPc = "openBox"
    /\ IF err # None
       THEN /\ IF mOp = "markAsRead"
               THEN MutReject(err[1])
               ELSE MutResolve(OpError(OpenFailedMessage(err[1])))
            /\ mFailedAt' = "openBox"
            /\ UNCHANGED mCalls
       ELSE /\ mCalls' = Append(mCalls, SearchCall)
            /\ mPc' = "search"
            /\ UNCHANGED <<mPromise, mResult, mRejection, mFailedAt>>
    /\ UNCHANGED <<mOp, mArgs, mResults, fetchVars, connVars, critVars, orgVars, restVars>>

NoMessagesMessage ==
    IF mOp = "moveMessages"
    THEN <<"No messages found in source mailbox">>
    ELSE <<"No messages found in mailbox">>

\* faulty variant: the targets are the search results named in messageIds
MutatingCallOnSuppliedIds(res) ==
    LET chosen == SelectSeq(res, LAMBDA n : ToString(n) \in Range(mArgs.messageIds)) IN
    IF mOp = "markAsRead" THEN FlagsCall("addFlags", chosen, <<"\\Seen">>)
    ELSE IF mOp = "deleteMessages"
         THEN FlagsCall("addFlags", chosen, <<"\\Deleted">>)
    ELSE IF mOp = "setFlags"
         THEN FlagsCall(IF mArgs.action = "add" THEN "addFlags" ELSE "delFlags",
                        chosen, mArgs.flags)
    ELSE MoveCall(chosen, mArgs.dest)

\* the state-changing call each operation issues on the search results
MutatingCall(res) ==
    IF mOp = "markAsRead" THEN FlagsCall("addFlags", res, <<"\\Seen">>)
    ELSE IF mOp = "deleteMessages"
         THEN FlagsCall("addFlags", res, <<"\\Deleted">>)
    ELSE IF mOp = "setFlags"
         THEN FlagsCall(IF mArgs.action = "add" THEN "addFlags" ELSE "delFlags",
                        res, mArgs.flags)
    ELSE MoveCall(res, mArgs.dest)

\* faulty variant: the state-changing call is issued on empty results too
MutSearchCbWithoutEmptyCheck(err, res) ==
    /\ mPc = "search"
    /\ IF err # None
       THEN /\ IF mOp = "markAsRead"
               THEN MutReject(err[1])
               ELSE MutResolve(OpError(<<"Failed to search messages: ">> \o err[1]))
            /\ mFailedAt' = "search"
            /\ UNCHANGED <<mCalls, mResults>>
       ELSE /\ mResults' = res
            /\ mCalls' = Append(mCalls, MutatingCall(res))
            /\ mPc' = "mutate"
            /\ UNCHANGED <<mPromise, mResult, mRejection, mFailedAt>>
    /\ UNCHANGED <<mOp, mArgs, fetchVars, connVars, critVars, orgVars, restVars>>

MutSearchCb(err, res) ==
    /\ mPc = "search"
    /\ IF err # None
       THEN /\ IF mOp = "markAsRead"
               THEN MutReject(err[1])
               ELSE MutResolve(OpError(<<"Failed to search messages: ">> \o err[1]))
            /\ mFailedAt' = "search"
            /\ UNCHANGED <<mCalls, mResults>>
       ELSE IF Len(res) = 0
       THEN /\ IF mOp = "markAsRead"
               THEN MutResolve(VoidResult)
               ELSE MutResolve(OpError(NoMessagesMessage))
            /\ mFailedAt' = "empty"
            /\ UNCHANGED <<mCalls, mResults>>
       ELSE /\ mResults' = res
            /\ mCalls' = Append(mCalls, MutatingCall(res))
            /\ mPc' = "mutate"
            /\ UNCHANGED <<mPromise, mResult, mRejection, mFailedAt>>
    /\ UNCHANGED <<mOp, mArgs, fetchVars, connVars, critVars, orgVars, restVars>>

MutateFailedMessage(err) ==
    IF mOp = "moveMessages" THEN <<"Failed to move messages: ">> \o err
    ELSE IF mOp = "deleteMessages"
         THEN <<"Failed to mark messages for deletion: ">> \o err
    ELSE <<"Failed to ", mArgs.action, " flags: ">> \o err

MutateDoneMessage ==
    IF mOp = "moveMessages"
    THEN <<"Successfully moved ", ToString(Len(mResults)), " messages from '",
           mArgs.mailbox, "' to '", mArgs.dest, "'">>
    ELSE <<"Successfully ",
           IF mArgs.action = "add" THEN "added" ELSE "removed",
           " flags [">> \o Join(mArgs.flags) \o
         <<"] ", IF mArgs.action = "add" THEN "to" ELSE "from", " ",
           ToString(Len(mResults)), " messages in '", mArgs.mailbox, "'">>

\* faulty variant: deleteMessages expunges whether or not marking succeeded
MutateCbExpungingAnyway(err) ==
    /\ mPc = "mutate"
    /\ IF mOp = "deleteMessages"
       THEN /\ mCalls' = Append(mCalls, ExpungeCall)
            /\ mPc' = "expunge"
            /\ mFailedAt' = IF err # None THEN "mutate" ELSE "none"
            /\ UNCHANGED <<mPromise, mResult, mRejection>>
       ELSE IF err # None
       THEN /\ IF mOp = "markAsRead"
               THEN MutReject(err[1])
               ELSE MutResolve(OpError(MutateFailedMessage(err[1])))
            /\ mFailedAt' = "mutate"
            /\ UNCHANGED mCalls
       ELSE /\ IF mOp = "markAsRead"
               THEN MutResolve(VoidResult)
               ELSE MutResolve(OpSuccess(MutateDoneMessage))
            /\ UNCHANGED <<mCalls, mFailedAt>>
    /\ UNCHANGED <<mOp, mArgs, mResults, fetchVars, connVars, critVars, orgVars, restVars>>

\* callback of addFlags / delFlags / move
MutateCb(err) ==
    /\ mPc = "mutate"
    /\ IF err # None
       THEN /\ IF mOp = "markAsRead"
               THEN MutReject(err[1])
               ELSE MutResolve(OpError(MutateFailedMessage(err[1])))
            /\ mFailedAt' = "mutate"
            /\ UNCHANGED mCalls
       ELSE IF mOp = "deleteMessages"
       THEN /\ mCalls' = Append(mCalls, ExpungeCall)
            /\ mPc' = "expunge"
            /\ UNCHANGED <<mPromise, mResult, mRejection, mFailedAt>>
       ELSE /\ IF mOp = "markAsRead"
               THEN MutResolve(VoidResult)
               ELSE MutResolve(OpSuccess(MutateDoneMessage))
            /\ UNCHANGED <<mCalls, mFailedAt>>
    /\ UNCHANGED <<mOp, mArgs, mResults, fetchVars, connVars, critVars, orgVars, restVars>>

ExpungeCb(err) ==
    /\ mPc = "expunge"
    /\ mFailedAt' = IF err # None THEN "expunge" ELSE "none"
    /\ IF err # None
       THEN MutResolve(OpError(<<"Failed to expunge deleted messages: ">> \o err[1]))
       ELSE MutResolve(OpSuccess(
                <<"Successfully deleted ", ToString(Len(mResults)),
                  " messages from '", mArgs.mailbox, "'">>))
    /\ UNCHANGED <<mOp, mArgs, mCalls, mResults, fetchVars, connVars, critVars, orgVars, restVars>>

CreateMailbox(name) ==
    /\ mPc = "idle"
    /\ mOp' = "createMailbox"
    /\ mArgs' = [NoArgs EXCEPT !.name = name]
    /\ mCalls' = <<AddBoxCall(name)>>
    /\ mPc' = "addBox"
    /\ mPromise' = "pending"
    /\ UNCHANGED <<mResults, mResult, mRejection, mFailedAt, fetchVars, connVars, critVars, orgVars, restVars>>

AddBoxCb(err) ==
    /\ mPc = "addBox"
    /\ mFailedAt' = IF err # None THEN "addBox" ELSE "none"
    /\ IF err # None
       THEN MutResolve(OpError(err[1]))
       ELSE MutResolve(OpSuccess(<<"Mailbox '">> \o mArgs.name
                                   \o <<"' created successfully">>))
    /\ UNCHANGED <<mOp, mArgs, mCalls, mResults, fetchVars, connVars, critVars, orgVars, restVars>>

DeleteMailbox(name) ==
    /\ mPc = "idle"
    /\ mOp' = "deleteMailbox"
    /\ mArgs' = [NoArgs EXCEPT !.name = name]
    /\ LET trimmedName == Trim(name) IN
       IF Len(name) = 0 \/ Len(Trim(name)) = 0
       THEN /\ MutResolve(OpError(<<"Mailbox name cannot be empty">>))
            /\ mFailedAt' = "validation"
            /\ UNCHANGED mCalls
       ELSE IF trimmedName \in systemMailboxes
       THEN /\ MutResolve(OpError(<<"Cannot delete system mailbox '">>
                                    \o trimmedName \o <<"'">>))
            /\ mFailedAt' = "validation"
            /\ UNCHANGED mCalls
       ELSE /\ mCalls' = <<DelBoxCall(trimmedName)>>
            /\ mPc' = "delBox"
            /\ mPromise' = "pending"
            /\ UNCHANGED <<mResult, mRejection, mFailedAt>>
    /\ UNCHANGED <<mResults, fetchVars, connVars, critVars, orgVars, restVars>>

\* the friendlier text substituted for known delBox failures
DelBoxErrorMessage(trimmedName, err) ==
    IF Includes(err, "does not exist")
    THEN <<"Mailbox '">> \o trimmedName \o <<"' ", "does not exist">>
    ELSE IF Includes(err, "not empty")
    THEN <<"Cannot delete mailbox '">> \o trimmedName
            \o <<"' because it contains messages. Please move or delete all messages first.">>
    ELSE IF Includes(err, "permission")
    THEN <<"Permission denied: Cannot delete mailbox '">> \o trimmedName \o <<"'">>
    ELSE err

DelBoxCb(err) ==
    /\ mPc = "delBox"
    /\ mFailedAt' = IF err # None THEN "delBox" ELSE "none"
    /\ LET trimmedName == Trim(mArgs.name) IN
       IF err # None
       THEN MutResolve(OpError(DelBoxErrorMessage(trimmedName, err[1])))
       ELSE MutResolve(OpSuccess(<<"Mailbox '">> \o trimmedName
                                   \o <<"' deleted successfully">>))
    /\ UNCHANGED <<mOp, mArgs, mCalls, mResults, fetchVars, connVars, critVars, orgVars, restVars>>

NextMut ==
    \/ \E ids \in IdLists, m \in MailboxArgs : MarkAsRead(ids, m)
    \/ \E ids \in IdLists, s \in Mailboxes, d \in Mailboxes : MoveMessages(ids, s, d)
    \/ \E ids \in IdLists, m \in MailboxArgs : DeleteMessages(ids, m)
    \/ \E ids \in IdLists, f \in FlagLists, m \in MailboxArgs, a \in ActionArgs :
          SetFlags(ids, f, m, a)
    \/ \E name \in Names : CreateMailbox(name)
    \/ \E name \in Names : DeleteMailbox(name)
    \/ \E err \in ErrArgs(MutErrors) : MutOpenBoxCb(err)
    \/ \E err \in ErrArgs(MutErrors), res \in AllResults : MutSearchCb(err, res)
    \/ \E err \in ErrArgs(MutErrors) : MutateCb(err)
    \/ \E err \in ErrArgs(MutErrors) : ExpungeCb(err)
    \/ \E err \in ErrArgs(MutErrors) : AddBoxCb(err)
    \/ \E err \in ErrArgs(DelBoxErrors) : DelBoxCb(err)

(***************************************************************************)
(* autoOrganize.  from, subject and the rule conditions are sequences of   *)
(* characters, so that toLowerCase and includes are computed.  The call    *)
(* awaits getMessages, then runs the rule loop, awaiting moveMessages for  *)
(* every rule that matched something unless dryRun is set.                 *)
(***************************************************************************)
LowerOf(c) ==
    CASE c = "A" -> "a"
      [] c = "B" -> "b"
      [] c = "C" -> "c"
      [] OTHER -> c

\* String.prototype.toLowerCase
ToLowerCase(s) == [i \in 1..Len(s) |-> LowerOf(s[i])]

\* String.prototype.includes
StrIncludes(hay, needle) ==
    \E i \in 0..(Len(hay) - Len(needle)) :
        SubSeq(hay, i + 1, i + Len(needle)) = needle

\* truthiness of an optional string: present and not ''
TruthyStr(x) == x # None /\ Len(x[1]) > 0

\* the message getMessages returned for sequence number n
OrgMessage(n) ==
    CASE n = 1 -> [id |-> "1", from |-> <<"A", "b">>, subject |-> <<"c">>]
      [] n = 2 -> [id |-> "2", from |-> <<"c">>, subject |-> <<"B", "a">>]
      [] OTHER -> [id |-> ToString(n), from |-> <<"b">>, subject |-> <<"b">>]

FetchedLists == {[i \in 1..n |-> OrgMessage(i)] : n \in 0..MaxMsgs}

Rule(name, fromContains, subjectContains, moveToMailbox) ==
    [name |-> name,
     condition |-> [fromContains |-> fromContains,
                    subjectContains |-> subjectContains],
     action |-> [moveToMailbox |-> moveToMailbox]]

OrgRuleSet ==
    {Rule("from", Some(<<"a">>), None, "Work"),
     Rule("subject", None, Some(<<"B">>), "Lists"),
     Rule("either", Some(<<"A", "B">>), Some(<<"a">>), "Work"),
     Rule("neither", None, None, "Work"),
     Rule("empty", Some(<<>>), None, "Lists"),
     Rule("nomatch", Some(<<"a", "b", "c">>), Some(<<"x">>), "Lists")}

RuleLists == UNION {[1..n -> OrgRuleSet] : n \in 0..MaxRules}
OrgSources == {Undef, "Work"}
OrgErrors == {<<"Failed to open mailbox">>}

\* faulty variant: both condition fields must match
RuleMatchesBothFields(rule, message) ==
    LET m0 == TRUE
        m1 == IF TruthyStr(rule.condition.fromContains)
              THEN m0 /\ StrIncludes(ToLowerCase(message.from),
                                     ToLowerCase(rule.condition.fromContains[1]))
              ELSE m0
        m2 == IF TruthyStr(rule.condition.subjectContains)
              THEN m1 /\ StrIncludes(ToLowerCase(message.subject),
                                     ToLowerCase(rule.condition.subjectContains[1]))
              ELSE m1
    IN m2

\* the body of the inner loop: the value of `matches` for one message
RuleMatches(rule, message) ==
    LET m0 == FALSE
        m1 == IF TruthyStr(rule.condition.fromContains)
              THEN m0 \/ StrIncludes(ToLowerCase(message.from),
                                     ToLowerCase(rule.condition.fromContains[1]))
              ELSE m0
        m2 == IF TruthyStr(rule.condition.subjectContains)
              THEN m1 \/ StrIncludes(ToLowerCase(message.subject),
                                     ToLowerCase(rule.condition.subjectContains[1]))
              ELSE m1
    IN m2

\* the inner loop: matchedMessages of one rule, in the order of the list
RECURSIVE MatchedMessages(_, _)
MatchedMessages(rule, msgs) ==
    IF Len(msgs) = 0 THEN <<>>
    ELSE (IF RuleMatches(rule, Head(msgs))
          THEN <<[id |-> Head(msgs).id,
                  from |-> Head(msgs).from,
                  subject |-> Head(msgs).subject,
                  destinationMailbox |-> rule.action.moveToMailbox]>>
          ELSE <<>>)
         \o MatchedMessages(rule, Tail(msgs))

RuleResult(rule, matched, moved) ==
    IF Len(matched) > 0
    THEN [rule |-> rule.name, matchedMessages |-> Len(matched),
          moved |-> moved, messages |-> Some(matched)]
    ELSE [rule |-> rule.name, matchedMessages |-> 0,
          moved |-> FALSE, messages |-> None]

\* the rule loop from rule i on, up to the next await of moveMessages or
\* to the end of the rules
RECURSIVE OrgRun(_, _, _, _, _)
OrgRun(rules, msgs, dry, i, res) ==
    IF i > Len(rules)
    THEN [idx |-> i, results |-> res]
    ELSE LET matched == MatchedMessages(rules[i], msgs) IN
         IF Len(matched) > 0 /\ ~dry
         THEN [idx |-> i, results |-> res]
         ELSE OrgRun(rules, msgs, dry, i + 1,
                     Append(res, RuleResult(rules[i], matched, FALSE)))

RECURSIVE TotalMatched(_)
TotalMatched(res) ==
    IF Len(res) = 0 THEN 0
    ELSE Head(res).matchedMessages + TotalMatched(Tail(res))

\* faulty variant: a message matched by several rules is counted once
OrgSuccessCountingDistinct(dry, res) ==
    LET total == Cardinality(UNION {IF res[k].messages = None THEN {}
                                    ELSE {res[k].messages[1][j].id :
                                             j \in 1..Len(res[k].messages[1])} :
                                    k \in 1..Len(res)})
    IN [status |-> "success",
        message |-> IF dry
                    THEN <<"Dry run completed. Found ", ToString(total),
                           " messages matching organization rules">>
                    ELSE <<"Organization completed. Processed ",
                           ToString(total), " messages">>,
        results |-> res]

OrgSuccess(dry, res) ==
    [status |-> "success",
     message |-> IF dry
                 THEN <<"Dry run completed. Found ", ToString(TotalMatched(res)),
                        " messages matching organization rules">>
                 ELSE <<"Organization completed. Processed ",
                        ToString(TotalMatched(res)), " messages">>,
     results |-> res]

NoOrgReturn == [status |-> "none", message |-> <<>>, results |-> <<>>]

\* ids of the matched messages: matchedMessages.map((m) => m.id)
IdsOf(matched) == [i \in 1..Len(matched) |-> matched[i].id]

InitOrg ==
    /\ orgPc = "idle"
    /\ orgRules = <<>>
    /\ orgSource = "INBOX"
    /\ orgDryRun = FALSE
    /\ orgMessages = <<>>
    /\ orgIdx = 0
    /\ orgResults = <<>>
    /\ orgMoveLog = <<>>
    /\ orgReturn = NoOrgReturn
    /\ orgFetch = "none"

\* the call, up to the await of getMessages(sourceMailbox, 100)
AutoOrganize(rules, sourceMailbox, dryRun) ==
    /\ orgPc = "idle"
    /\ orgPc' = "getMessages"
    /\ orgRules' = rules
    /\ orgSource' = MailboxOrDefault(sourceMailbox)
    /\ orgDryRun' = dryRun
    /\ orgFetch' = "pending"
    /\ UNCHANGED <<orgMessages, orgIdx, orgResults, orgMoveLog, orgReturn,
                   fetchVars, connVars, critVars, mutVars, restVars>>

\* faulty variant: the rule loop is run as if dryRun were false
OrgContinueIgnoringDryRun(msgs, i, res) ==
    LET r == OrgRun(orgRules, msgs, FALSE, i, res) IN
    /\ orgIdx' = r.idx
    /\ orgResults' = r.results
    /\ IF r.idx <= Len(orgRules)
       THEN /\ orgPc' = "awaitMove"
            /\ MoveMessagesBody(IdsOf(MatchedMessages(orgRules[r.idx], msgs)),
                                orgSource,
                                orgRules[r.idx].action.moveToMailbox)
            /\ UNCHANGED orgReturn
       ELSE /\ orgPc' = "done"
            /\ orgReturn' = OrgSuccess(orgDryRun, r.results)
            /\ UNCHANGED mutVars

\* run the rule loop from rule i with the results so far, then either
\* call moveMessages and await it or return
OrgContinue(msgs, i, res) ==
    LET r == OrgRun(orgRules, msgs, orgDryRun, i, res) IN
    /\ orgIdx' = r.idx
    /\ orgResults' = r.results
    /\ IF r.idx <= Len(orgRules)
       THEN /\ orgPc' = "awaitMove"
            /\ MoveMessagesBody(IdsOf(MatchedMessages(orgRules[r.idx], msgs)),
                                orgSource,
                                orgRules[r.idx].action.moveToMailbox)
            /\ UNCHANGED orgReturn
       ELSE /\ orgPc' = "done"
            /\ orgReturn' = OrgSuccess(orgDryRun, r.results)
            /\ UNCHANGED mutVars

OrgGetMessagesResolved(msgs) ==
    /\ orgPc = "getMessages"
    /\ orgMessages' = msgs
    /\ orgFetch' = "resolved"
    /\ OrgContinue(msgs, 1, <<>>)
    /\ UNCHANGED <<orgRules, orgSource, orgDryRun, orgMoveLog,
                   fetchVars, connVars, critVars, restVars>>

\* getMessages rejected: the outer catch
OrgGetMessagesRejected(err) ==
    /\ orgPc = "getMessages"
    /\ orgPc' = "done"
    /\ orgFetch' = "rejected"
    /\ orgReturn' = [status |-> "error",
                     message |-> <<"Failed to organize emails: ">> \o err,
                     results |-> <<>>]
    /\ UNCHANGED <<orgRules, orgSource, orgDryRun, orgMessages, orgIdx,
                   orgResults, orgMoveLog, fetchVars, connVars, critVars, mutVars, restVars>>

\* faulty variant: a failed move ends the call with status 'error'
OrgMoveSettledFailingOnMoveError ==
    /\ orgPc = "awaitMove"
    /\ mPromise \in {"resolved", "rejected"}
    /\ LET rule == orgRules[orgIdx]
           matched == MatchedMessages(rule, orgMessages)
           moved == mPromise = "resolved"
       IN /\ orgMoveLog' = Append(orgMoveLog,
                  [rule |-> orgIdx,
                   outcome |-> IF mPromise = "rejected" THEN "rejected"
                               ELSE mResult.status,
                   found |-> mResults,
                   targets |-> IF Len(mCalls) >= 3 THEN mCalls[3].targets
                               ELSE <<>>,
                   dest |-> mArgs.dest])
          /\ IF mPromise = "resolved" /\ mResult.status = "error"
             THEN /\ orgPc' = "done"
                  /\ orgReturn' = [status |-> "error",
                                   message |-> <<"Failed to organize emails: ">>
                                                   \o mResult.message,
                                   results |-> <<>>]
                  /\ UNCHANGED <<orgIdx, orgResults, mutVars>>
             ELSE OrgContinue(orgMessages, orgIdx + 1,
                              Append(orgResults,
                                     RuleResult(rule, matched, ~orgDryRun /\ moved)))
    /\ UNCHANGED <<orgRules, orgSource, orgDryRun, orgMessages, orgFetch,
                   fetchVars, connVars, critVars, restVars>>

\* the continuation after await moveMessages: moved = true when the promise
\* fulfilled, the inner catch when it rejected; then the rest of the loop
OrgMoveSettled ==
    /\ orgPc = "awaitMove"
    /\ mPromise \in {"resolved", "rejected"}
    /\ LET rule == orgRules[orgIdx]
           matched == MatchedMessages(rule, orgMessages)
           moved == mPromise = "resolved"
       IN /\ orgMoveLog' = Append(orgMoveLog,
                  [rule |-> orgIdx,
                   outcome |-> IF mPromise = "rejected" THEN "rejected"
                               ELSE mResult.status,
                   found |-> mResults,
                   targets |-> IF Len(mCalls) >= 3 THEN mCalls[3].targets
                               ELSE <<>>,
                   dest |-> mArgs.dest])
          /\ OrgContinue(orgMessages, orgIdx + 1,
                         Append(orgResults,
                                RuleResult(rule, matched, ~orgDryRun /\ moved)))
    /\ UNCHANGED <<orgRules, orgSource, orgDryRun, orgMessages, orgFetch,
                   fetchVars, connVars, critVars, restVars>>

NextOrg ==
    \/ \E rules \in RuleLists, s \in OrgSources, d \in BOOLEAN :
          AutoOrganize(rules, s, d)
    \/ \E msgs \in FetchedLists : OrgGetMessagesResolved(msgs)
    \/ \E err \in OrgErrors : OrgGetMessagesRejected(err)
    \/ \E err \in ErrArgs(MutErrors) : MutOpenBoxCb(err)
    \/ \E err \in ErrArgs(MutErrors), res \in AllResults : MutSearchCb(err, res)
    \/ \E err \in ErrArgs(MutErrors) : MutateCb(err)
    \/ OrgMoveSettled

(***************************************************************************)
(* downloadAttachment.  The mailbox is a sequence of messages as the       *)
(* parser reports them; attachment contents are sequences of bytes and the *)
(* data field is the sequence of base64 characters, each written as its    *)
(* 6-bit value, the padding character '=' as Pad.                          *)
(***************************************************************************)
Pad == 64

\* Buffer.prototype.toString('base64')
RECURSIVE Base64Encode(_)
Base64Encode(b) ==
    IF Len(b) = 0 THEN <<>>
    ELSE IF Len(b) = 1
    THEN <<b[1] \div 4, (b[1] % 4) * 16, Pad, Pad>>
    ELSE IF Len(b) = 2
    THEN <<b[1] \div 4, (b[1] % 4) * 16 + b[2] \div 16, (b[2] % 16) * 4, Pad>>
    ELSE <<b[1] \div 4,
           (b[1] % 4) * 16 + b[2] \div 16,
           (b[2] % 16) * 4 + b[3] \div 64,
           b[3] % 64>>
         \o Base64Encode(SubSeq(b, 4, Len(b)))

\* content of n bytes
ByteAt(i) == (i * 77 + 178) % 256
Bytes(n) == [i \in 1..n |-> ByteAt(i)]

\* an attachment as mailparser reports it: size is the length of content
Attachment(filename, contentType, n) ==
    [filename |-> filename, contentType |-> contentType,
     size |-> n, content |-> Bytes(n)]

AttachmentLists ==
    {<<>>}
    \cup {<<Attachment(Some("a.bin"), Some("image/png"), n)>> : n \in 0..MaxBytes}
    \cup {<<Attachment(None, None, 1), Attachment(Some("b.txt"), Some("text/plain"), 2)>>}

\* parsed.messageId and parsed.attachments of a message of the mailbox
AttMessages ==
    {[messageId |-> id, attachments |-> atts] :
        id \in {None, Some("<a@x>")}, atts \in AttachmentLists}

\* messages that come first in the mailboxes of two messages
FirstMessages ==
    {[messageId |-> None, attachments |-> <<>>],
     [messageId |-> Some("<a@x>"),
      attachments |-> <<Attachment(None, None, 1),
                        Attachment(Some("b.txt"), Some("text/plain"), 2)>>]}

AttMailboxes == {<<>>} \cup {<<m>> : m \in AttMessages}
                \cup {<<m1, m2>> : m1 \in FirstMessages, m2 \in AttMessages}

AttIdArgs == {"<a@x>", "1", "2", "<none>"}
AttIndexArgs == {None, Some(-1), Some(0), Some(1), Some(2)}
\* default parameter attachmentIndex = 0
IndexOrDefault(i) == IF i = None THEN 0 ELSE i[1]
AttBoxArgs == {Undef, "Work"}
AttErrors == {<<"NO failure">>}

NoAttResult == [status |-> "none", message |-> <<>>, attachment |-> None]
AttError(message) ==
    [status |-> "error", message |-> message, attachment |-> None]

\* faulty variant: size is the length of the encoded data
AttachmentPayloadWithEncodedSize(attachment) ==
    [filename |-> OrElse(attachment.filename, Some("unknown")),
     contentType |-> OrElse(attachment.contentType, Some("application/octet-stream")),
     size |-> Len(Base64Encode(attachment.content)),
     data |-> Base64Encode(attachment.content)]

\* the attachment object of the success result
AttachmentPayload(attachment) ==
    [filename |-> OrElse(attachment.filename, Some("unknown")),
     contentType |-> OrElse(attachment.contentType, Some("application/octet-stream")),
     size |-> IF attachment.size # 0 THEN attachment.size ELSE 0,
     data |-> Base64Encode(attachment.content)]

AttSuccess(attachment) ==
    [status |-> "success",
     message |-> <<"Successfully downloaded attachment '",
                   IF attachment.filename = None THEN "undefined"
                   ELSE attachment.filename[1],
                   "'">>,
     attachment |-> Some(AttachmentPayload(attachment))]

InitAtt ==
    /\ aPc = "idle"
    /\ aArgs = [messageId |-> "", attachmentIndex |-> 0, mailbox |-> ""]
    /\ aBox = <<>>
    /\ aMsgState = <<>>
    /\ aFound = FALSE
    /\ aFetchErr = FALSE
    /\ aFetchEnd = FALSE
    /\ aPromise = "none"
    /\ aResult = NoAttResult

\* resolve(value): only the first settlement of the promise counts
AttResolve(value) ==
    IF aPromise = "pending"
    THEN aPromise' = "resolved" /\ aResult' = value
    ELSE UNCHANGED <<aPromise, aResult>>

\* the call: new Promise whose executor calls openBox(mailbox, true, cb)
DownloadAttachment(messageId, attachmentIndex, mailbox) ==
    /\ aPc = "idle"
    /\ aPc' = "openBox"
    /\ aArgs' = [messageId |-> messageId,
                 attachmentIndex |-> IndexOrDefault(attachmentIndex),
                 mailbox |-> MailboxOrDefault(mailbox)]
    /\ aPromise' = "pending"
    /\ UNCHANGED <<aBox, aMsgState, aFound, aFetchErr, aFetchEnd, aResult,
                   fetchVars, connVars, critVars, mutVars, orgVars, toolVars, pairVars>>

AttOpenBoxCb(err) ==
    /\ aPc = "openBox"
    /\ IF err # None
       THEN /\ AttResolve(AttError(<<"Failed to open mailbox '", aArgs.mailbox, "': ">>
                                     \o err[1]))
            /\ aPc' = "done"
       ELSE /\ aPc' = "search"
            /\ UNCHANGED <<aPromise, aResult>>
    /\ UNCHANGED <<aArgs, aBox, aMsgState, aFound, aFetchErr, aFetchEnd,
                   fetchVars, connVars, critVars, mutVars, orgVars, toolVars, pairVars>>

\* callback of search(['ALL']) on a mailbox holding the messages of box:
\* the results are 1..Len(box) and all of them are fetched
AttSearchCb(err, box) ==
    /\ aPc = "search"
    /\ IF err # None
       THEN /\ AttResolve(AttError(<<"Failed to search messages: ">> \o err[1]))
            /\ aPc' = "done"
            /\ UNCHANGED <<aBox, aMsgState>>
       ELSE IF Len(box) = 0
       THEN /\ AttResolve(AttError(<<"No messages found in mailbox">>))
            /\ aPc' = "done"
            /\ UNCHANGED <<aBox, aMsgState>>
       ELSE /\ aBox' = box
            /\ aMsgState' = [i \in 1..Len(box) |-> "none"]
            /\ aPc' = "fetch"
            /\ UNCHANGED <<aPromise, aResult>>
    /\ UNCHANGED <<aArgs, aFound, aFetchErr, aFetchEnd,
                   fetchVars, connVars, critVars, mutVars, orgVars, toolVars, pairVars>>

\* fetch.on('message'): ignored once found is set, otherwise the body
\* handlers are registered
AttFetchMessage(n) ==
    /\ aPc = "fetch"
    /\ ~aFetchErr /\ ~aFetchEnd
    /\ n \in 1..Len(aBox)
    /\ aMsgState[n] = "none"
    /\ \A j \in 1..(n - 1) : aMsgState[j] # "none"
    /\ aMsgState' = [aMsgState EXCEPT ![n] = IF aFound THEN "skipped" ELSE "body"]
    /\ UNCHANGED <<aPc, aArgs, aBox, aFound, aFetchErr, aFetchEnd, aPromise,
                   aResult, fetchVars, connVars, critVars, mutVars, orgVars, toolVars, pairVars>>

\* stream.once('end'): simpleParser(emailData) is started and awaited
AttBodyEnd(n) ==
    /\ aPc = "fetch"
    /\ n \in 1..Len(aBox)
    /\ aMsgState[n] = "body"
    /\ aMsgState' = [aMsgState EXCEPT ![n] = "parsing"]
    /\ UNCHANGED <<aPc, aArgs, aBox, aFound, aFetchErr, aFetchEnd, aPromise,
                   aResult, fetchVars, connVars, critVars, mutVars, orgVars, toolVars, pairVars>>

\* the test of the parsed message against the requested id
IsTarget(parsed, seqno, messageId) ==
    \/ parsed.messageId = Some(messageId)
    \/ ToString(seqno) = messageId

\* the continuation after await simpleParser
AttParseOk(n) ==
    /\ aPc = "fetch"
    /\ n \in 1..Len(aBox)
    /\ aMsgState[n] = "parsing"
    /\ aMsgState' = [aMsgState EXCEPT ![n] = "done"]
    /\ LET parsed == aBox[n] IN
       IF IsTarget(parsed, n, aArgs.messageId)
       THEN /\ aFound' = TRUE
            /\ IF Len(parsed.attachments) = 0
               THEN AttResolve(AttError(<<"No attachments found in the message">>))
               ELSE IF aArgs.attachmentIndex >= Len(parsed.attachments)
               THEN AttResolve(AttError(
                        <<"Attachment index ", ToString(aArgs.attachmentIndex),
                          " out of range. Message has ",
                          ToString(Len(parsed.attachments)), " attachments">>))
               ELSE IF aArgs.attachmentIndex < 0
               \* parsed.attachments[attachmentIndex] is undefined and
               \* attachment.filename throws: caught and logged, no resolve
               THEN UNCHANGED <<aPromise, aResult>>
               ELSE AttResolve(AttSuccess(
                        parsed.attachments[aArgs.attachmentIndex + 1]))
       ELSE UNCHANGED <<aFound, aPromise, aResult>>
    /\ UNCHANGED <<aPc, aArgs, aBox, aFetchErr, aFetchEnd,
                   fetchVars, connVars, critVars, mutVars, orgVars, toolVars, pairVars>>

\* catch (parseError): the error is logged
AttParseFail(n) ==
    /\ aPc = "fetch"
    /\ n \in 1..Len(aBox)
    /\ aMsgState[n] = "parsing"
    /\ aMsgState' = [aMsgState EXCEPT ![n] = "failed"]
    /\ UNCHANGED <<aPc, aArgs, aBox, aFound, aFetchErr, aFetchEnd, aPromise,
                   aResult, fetchVars, connVars, critVars, mutVars, orgVars, toolVars, pairVars>>

\* fetch.once('error')
AttFetchError(err) ==
    /\ aPc = "fetch"
    /\ ~aFetchErr /\ ~aFetchEnd
    /\ aFetchErr' = TRUE
    /\ AttResolve(AttError(<<"Failed to fetch messages: ">> \o err))
    /\ UNCHANGED <<aPc, aArgs, aBox, aMsgState, aFound, aFetchEnd,
                   fetchVars, connVars, critVars, mutVars, orgVars, toolVars, pairVars>>

\* fetch.once('end'): every message was delivered or the command failed
AttFetchEnd ==
    /\ aPc = "fetch"
    /\ ~aFetchEnd
    /\ aFetchErr \/ \A j \in 1..Len(aBox) : aMsgState[j] # "none"
    /\ aFetchEnd' = TRUE
    /\ IF ~aFound
       THEN AttResolve(AttError(<<"Message with ID '", aArgs.messageId, "' not found">>))
       ELSE UNCHANGED <<aPromise, aResult>>
    /\ UNCHANGED <<aPc, aArgs, aBox, aMsgState, aFound, aFetchErr,
                   fetchVars, connVars, critVars, mutVars, orgVars, toolVars, pairVars>>

NextAtt ==
    \/ \E id \in AttIdArgs, i \in AttIndexArgs, m \in AttBoxArgs :
          DownloadAttachment(id, i, m)
    \/ \E err \in ErrArgs(AttErrors) : AttOpenBoxCb(err)
    \/ \E err \in ErrArgs(AttErrors), box \in AttMailboxes : AttSearchCb(err, box)
    \/ \E n \in SeqNos : AttFetchMessage(n)
    \/ \E n \in SeqNos : AttBodyEnd(n)
    \/ \E n \in SeqNos : AttParseOk(n)
    \/ \E n \in SeqNos : AttParseFail(n)
    \/ \E err \in AttErrors : AttFetchError(err)
    \/ AttFetchEnd

(***************************************************************************)
(* The server (index.ts): initializeFromEnv at startup and the handler of  *)
(* CallToolRequestSchema.  Credentials are sequences of characters.        *)
(***************************************************************************)
CredChars == <<"k", "e", "y", "w", "o", "r", "d", "s", "x", "z">>
\* an environment variable: unset, or a string of up to MaxCredLen characters
CredValues == {None} \cup {Some(SubSeq(CredChars, 1, n)) : n \in 0..MaxCredLen}

\* truthiness of process.env.X
EnvSet(v) == v # None /\ Len(v[1]) > 0

\* faulty variant: a value of four characters is not treated as short
maskCredentialShortByOne(value) ==
    IF ~EnvSet(value) THEN <<"Not set">>
    ELSE IF Len(value[1]) < 4 THEN <<"***">>
    ELSE SubSeq(value[1], 1, 4) \o <<"***">>

maskCredential(value) ==
    IF ~EnvSet(value) THEN <<"Not set">>
    ELSE IF Len(value[1]) <= 4 THEN <<"***">>
    ELSE SubSeq(value[1], 1, 4) \o <<"***">>

\* the tools of the README
ToolSurface ==
    {"get_messages", "send_email", "mark_as_read", "get_mailboxes",
     "test_connection", "create_mailbox", "delete_mailbox", "move_messages",
     "search_messages", "delete_messages", "set_flags", "download_attachment",
     "auto_organize", "check_config"}
ToolNames == ToolSurface \cup {"no_such_tool"}

\* the case labels of the switch that start with the mailClient check
SessionCases ==
    {"get_messages", "send_email", "mark_as_read", "get_mailboxes",
     "test_connection", "create_mailbox", "delete_mailbox", "move_messages",
     "search_messages"}

\* the client method a case awaits
ClientMethodOf(name) ==
    CASE name = "get_messages" -> "getMessages"
      [] name = "send_email" -> "sendEmail"
      [] name = "mark_as_read" -> "markAsRead"
      [] name = "get_mailboxes" -> "getMailboxes"
      [] name = "test_connection" -> "testConnection"
      [] name = "create_mailbox" -> "createMailbox"
      [] name = "delete_mailbox" -> "deleteMailbox"
      [] name = "move_messages" -> "moveMessages"
      [] OTHER -> "searchMessages"

\* whether the arguments object carries the tool's required arguments
ToolArgs == {"absent", "present"}
ToolErrors == {<<"Connection lost">>}

NotConfiguredMsg ==
    <<"iCloud Mail not configured. Please set ICLOUD_EMAIL and ICLOUD_APP_PASSWORD environment variables.">>

McpError(code, message) == [type |-> "McpError", code |-> code, message |-> message]
PlainError(message) == [type |-> "Error", code |-> "", message |-> message]

NoOutcome == [kind |-> "none", code |-> "", message |-> <<>>, config |-> None]
ToolResult(config) ==
    [kind |-> "result", code |-> "", message |-> <<>>, config |-> config]

\* faulty variant: an McpError is wrapped like any other exception
ToolCatchWrappingAll(name, error) ==
    [kind |-> "McpError", code |-> "InternalError",
     message |-> <<"Error executing tool ", name, ": ">> \o error.message,
     config |-> None]

\* the catch block of the handler: what is thrown to the protocol layer
ToolCatch(name, error) ==
    IF error.type = "McpError"
    THEN [kind |-> "McpError", code |-> error.code,
          message |-> error.message, config |-> None]
    ELSE [kind |-> "McpError", code |-> "InternalError",
          message |-> <<"Error executing tool ", name, ": ">> \o error.message,
          config |-> None]

InitTool(e, p) ==
    /\ envEmail = e
    /\ envPassword = p
    /\ startup = "init"
    /\ mailClient = "null"
    /\ tPc = "idle"
    /\ tName = ""
    /\ tArg = "absent"
    /\ tStartup = "init"
    /\ tInvoked = <<>>
    /\ tRaised = None
    /\ tOutcome = NoOutcome

\* initializeFromEnv up to its await: the client is created and assigned
\* before connect() settles
InitializeFromEnv ==
    /\ startup = "init"
    /\ IF EnvSet(envEmail) /\ EnvSet(envPassword)
       THEN mailClient' = "client" /\ startup' = "connecting"
       ELSE mailClient' = "null" /\ startup' = "absent"
    /\ UNCHANGED <<envEmail, envPassword, tPc, tName, tArg, tStartup, tInvoked,
                   tRaised, tOutcome, fetchVars, connVars, critVars, mutVars,
                   orgVars, attVars, pairVars>>

\* await mailClient.connect() fulfilled
StartupConnected ==
    /\ startup = "connecting"
    /\ startup' = "connected"
    /\ UNCHANGED <<envEmail, envPassword, mailClient, tPc, tName, tArg, tStartup,
                   tInvoked, tRaised, tOutcome, fetchVars, connVars, critVars,
                   mutVars, orgVars, attVars, pairVars>>

\* await mailClient.connect() rejected: mailClient = null
StartupFailed ==
    /\ startup = "connecting"
    /\ startup' = "failed"
    /\ mailClient' = "null"
    /\ UNCHANGED <<envEmail, envPassword, tPc, tName, tArg, tStartup, tInvoked,
                   tRaised, tOutcome, fetchVars, connVars, critVars, mutVars,
                   orgVars, attVars, pairVars>>

\* throw inside the try block
ToolThrow(name, error) ==
    /\ tRaised' = Some(error)
    /\ tOutcome' = ToolCatch(name, error)
    /\ tPc' = "done"

CheckConfigResult ==
    ToolResult(Some(
        [email |-> [value |-> maskCredential(envEmail),
                    configured |-> EnvSet(envEmail)],
         appPassword |-> [value |-> maskCredential(envPassword),
                          configured |-> EnvSet(envPassword)],
         connectionStatus |-> IF mailClient # "null" THEN "Connected"
                              ELSE "Not connected"]))

\* the handler, from its entry to its first await or to its end
CallTool(name, arg) ==
    /\ tPc = "idle"
    /\ startup # "init"
    /\ tName' = name
    /\ tArg' = arg
    /\ tStartup' = startup
    /\ IF name \in SessionCases
       THEN IF mailClient = "null"
            THEN /\ ToolThrow(name, McpError("InvalidRequest", NotConfiguredMsg))
                 /\ UNCHANGED tInvoked
            ELSE IF name = "delete_mailbox" /\ arg = "absent"
            THEN /\ ToolThrow(name, McpError("InvalidParams",
                                             <<"Mailbox name is required">>))
                 /\ UNCHANGED tInvoked
            ELSE /\ tInvoked' = Append(tInvoked, ClientMethodOf(name))
                 /\ tPc' = "awaiting"
                 /\ UNCHANGED <<tRaised, tOutcome>>
       ELSE IF name = "check_config"
       THEN /\ tOutcome' = CheckConfigResult
            /\ tPc' = "done"
            /\ UNCHANGED <<tInvoked, tRaised>>
       ELSE /\ ToolThrow(name, McpError("MethodNotFound", <<"Unknown tool: ", name>>))
            /\ UNCHANGED tInvoked
    /\ UNCHANGED <<envEmail, envPassword, startup, mailClient,
                   fetchVars, connVars, critVars, mutVars, orgVars, attVars, pairVars>>

\* the awaited client method fulfilled: the rest of the case; mark_as_read
\* reads messageIds.length of its argument
ToolMethodResolved ==
    /\ tPc = "awaiting"
    /\ IF tName = "mark_as_read" /\ tArg = "absent"
       THEN ToolThrow(tName, PlainError(
                <<"Cannot read properties of undefined (reading 'length')">>))
       ELSE /\ tOutcome' = ToolResult(None)
            /\ tPc' = "done"
            /\ UNCHANGED tRaised
    /\ UNCHANGED <<envEmail, envPassword, startup, mailClient, tName, tArg,
                   tStartup, tInvoked, fetchVars, connVars, critVars, mutVars,
                   orgVars, attVars, pairVars>>

\* the awaited client method rejected
ToolMethodRejected(err) ==
    /\ tPc = "awaiting"
    /\ ToolThrow(tName, PlainError(err))
    /\ UNCHANGED <<envEmail, envPassword, startup, mailClient, tName, tArg,
                   tStartup, tInvoked, fetchVars, connVars, critVars, mutVars,
                   orgVars, attVars, pairVars>>

NextTool ==
    \/ InitializeFromEnv
    \/ StartupConnected
    \/ StartupFailed
    \/ \E name \in ToolNames, arg \in ToolArgs : CallTool(name, arg)
    \/ ToolMethodResolved
    \/ \E err \in ToolErrors : ToolMethodRejected(err)

(***************************************************************************)
(* The shared session: the one client created at startup serves every      *)
(* tool call, so testConnection runs connect() and disconnect() on the     *)
(* connection the startup established.                                     *)
(***************************************************************************)
\* initializeFromEnv with both variables set: the client is assigned and
\* connect() is called and awaited
SessInitializeFromEnv ==
    /\ startup = "init"
    /\ EnvSet(envEmail) /\ EnvSet(envPassword)
    /\ connPromise = "none"
    /\ mailClient' = "client"
    /\ startup' = "connecting"
    /\ ConnectBody
    /\ UNCHANGED <<email, imapUser, onEnd, firstErr, connRejection,
                   closePending, endAfterClose, discPromise, tcPc, tcLog,
                   verify, timer, race, raceErr, raceLog, tcResult,
                   envEmail, envPassword, tPc, tName, tArg, tStartup,
                   tInvoked, tRaised, tOutcome,
                   fetchVars, critVars, mutVars, orgVars, attVars, pairVars>>

\* the continuation after await mailClient.connect(), or the catch block
SessStartupSettled ==
    /\ startup = "connecting"
    /\ connPromise \in {"resolved", "rejected"}
    /\ startup' = IF connPromise = "resolved" THEN "connected" ELSE "failed"
    /\ mailClient' = IF connPromise = "resolved" THEN mailClient ELSE "null"
    /\ UNCHANGED <<envEmail, envPassword, tPc, tName, tArg, tStartup,
                   tInvoked, tRaised, tOutcome,
                   fetchVars, connVars, critVars, mutVars, orgVars, attVars, pairVars>>

\* case 'test_connection' on the connected client: await
\* mailClient.testConnection(), which starts with await this.connect()
SessCallTestConnection ==
    /\ tPc = "idle"
    /\ startup = "connected"
    /\ mailClient # "null"
    /\ sock = "open"
    /\ tcPc = "idle"
    /\ tName' = "test_connection"
    /\ tStartup' = startup
    /\ tInvoked' = Append(tInvoked, "testConnection")
    /\ tPc' = "awaiting"
    /\ ConnectBody
    /\ tcPc' = "connect"
    /\ tcLog' = Append(tcLog, "connect")
    /\ UNCHANGED <<email, imapUser, onEnd, firstErr, connRejection,
                   closePending, endAfterClose, discPromise, verify, timer,
                   race, raceErr, raceLog, tcResult,
                   envEmail, envPassword, startup, mailClient, tArg, tRaised,
                   tOutcome, fetchVars, critVars, mutVars, orgVars, attVars, pairVars>>

\* testConnection() returned its result: the handler returns it as text
SessTestConnectionReturned ==
    /\ tPc = "awaiting"
    /\ tName = "test_connection"
    /\ tcPc = "done"
    /\ tPc' = "done"
    /\ tOutcome' = ToolResult(None)
    /\ UNCHANGED <<envEmail, envPassword, startup, mailClient, tName, tArg,
                   tStartup, tInvoked, tRaised,
                   fetchVars, connVars, critVars, mutVars, orgVars, attVars, pairVars>>

NextSess ==
    \/ SessInitializeFromEnv
    \/ SessStartupSettled
    \/ SessCallTestConnection
    \/ SessTestConnectionReturned
    \/ ImapReady
    \/ \E err \in RawErrors : ImapError(err)
    \/ ImapEnd
    \/ TcConnected
    \/ TcConnectFailed
    \/ TcDisconnected
    \/ \E ok \in BOOLEAN, err \in RawErrors : VerifySettles(ok, err)
    \/ TimerFires
    \/ TcRaceSettled

(***************************************************************************)
(* Two operations in flight on the one connection.  node-imap sends one    *)
(* command at a time: a call appends its command to the queue, the head of *)
(* the queue is executed against the mailbox selected at that moment, and  *)
(* its callback appends the operation's next command behind whatever is    *)
(* already queued.                                                         *)
(***************************************************************************)
Operations == {1, 2}
PairMethods == {"moveMessages", "deleteMessages"}

Command(o, cmd, box) == [op |-> o, cmd |-> cmd, box |-> box]

InitPair ==
    /\ pPc = [o \in Operations |-> "idle"]
    /\ pOp = [o \in Operations |-> "none"]
    /\ pBox = [o \in Operations |-> ""]
    /\ pLog = [o \in Operations |-> <<>>]
    /\ pStatus = [o \in Operations |-> "none"]
    /\ queue = <<>>
    /\ selected = "none"

\* a tool call reaches the client method: new Promise whose executor calls
\* this.imap.openBox(mailbox, false, cb)
PairCall(o, method, box) ==
    /\ pPc[o] = "idle"
    /\ pPc' = [pPc EXCEPT ![o] = "openBox"]
    /\ pOp' = [pOp EXCEPT ![o] = method]
    /\ pBox' = [pBox EXCEPT ![o] = box]
    /\ queue' = Append(queue, Command(o, "openBox", box))
    /\ UNCHANGED <<pLog, pStatus, selected, fetchVars, connVars, critVars,
                   mutVars, orgVars, attVars, toolVars>>

\* the command that follows cmd in the callback chain of a method
NextCommand(method, cmd) ==
    CASE cmd = "openBox" -> "search"
      [] cmd = "search" /\ method = "moveMessages" -> "move"
      [] cmd = "search" /\ method = "deleteMessages" -> "addFlags"
      [] cmd = "addFlags" -> "expunge"
      [] OTHER -> "none"

PcOf(cmd) ==
    CASE cmd = "search" -> "search"
      [] cmd = "expunge" -> "expunge"
      [] OTHER -> "mutate"

\* the head of the queue is executed and its callback runs: with an error,
\* or with an empty search result, the operation resolves status 'error';
\* otherwise it issues its next command, or resolves status 'success'
\* after its last one
PairExec(err, empty) ==
    /\ Len(queue) > 0
    /\ LET h == Head(queue)
           o == h.op
           next == NextCommand(pOp[o], h.cmd)
           failed == err \/ (h.cmd = "search" /\ empty)
       IN /\ selected' = IF h.cmd = "openBox"
                         THEN (IF err THEN "none" ELSE h.box)
                         ELSE selected
          /\ pLog' = IF h.cmd = "openBox" THEN pLog
                     ELSE [pLog EXCEPT ![o] =
                              Append(@, [cmd |-> h.cmd, box |-> selected])]
          /\ IF failed
             THEN /\ pPc' = [pPc EXCEPT ![o] = "done"]
                  /\ pStatus' = [pStatus EXCEPT ![o] = "error"]
                  /\ queue' = Tail(queue)
             ELSE IF next = "none"
             THEN /\ pPc' = [pPc EXCEPT ![o] = "done"]
                  /\ pStatus' = [pStatus EXCEPT ![o] = "success"]
                  /\ queue' = Tail(queue)
             ELSE /\ pPc' = [pPc EXCEPT ![o] = PcOf(next)]
                  /\ queue' = Append(Tail(queue), Command(o, next, ""))
                  /\ UNCHANGED pStatus
    /\ UNCHANGED <<pOp, pBox, fetchVars, connVars, critVars, mutVars, orgVars,
                   attVars, toolVars>>

NextPair ==
    \/ \E o \in Operations, method \in PairMethods, box \in Mailboxes :
          PairCall(o, method, box)
    \/ \E err \in BOOLEAN, empty \in BOOLEAN : PairExec(err, empty)

DefaultEmail == <<"j", "o", "@", "x">>

InitLater == InitMut /\ InitOrg /\ InitAtt /\ InitTool(None, None) /\ InitPair

Init ==
    /\ InitFetch
    /\ InitConn(DefaultEmail)
    /\ InitCriteria(NoFilter)
    /\ InitLater

Next ==
    \/ \E l \in Limits, u \in BOOLEAN : GetMessages(l, u)
    \/ \E l \in Limits, o \in PipelineFilters : SearchMessages(l, o)
    \/ \E err \in BOOLEAN : OpenBoxCb(err)
    \/ \E err \in BOOLEAN, res \in SearchResults : SearchCb(err, res)
    \/ \E n \in SeqNos : FetchMessage(n)
    \/ \E n \in SeqNos : BodyEnd(n)
    \/ \E n \in SeqNos : \E parsed \in ParsedMails(n) : ParseOk(n, parsed)
    \/ \E n \in SeqNos : ParseFail(n)
    \/ \E n \in SeqNos : \E flags \in AttrFlagsOf(n) : Attributes(n, flags)
    \/ FetchError
    \/ FetchEnd

Spec == Init /\ [][Next]_vars

InitC ==
    /\ InitFetch
    /\ \E e \in Emails : InitConn(e)
    /\ InitCriteria(NoFilter)
    /\ InitLater

SpecConn == InitC /\ [][NextConn]_vars

InitK ==
    /\ InitFetch
    /\ InitConn(DefaultEmail)
    /\ \E o \in SearchFilters : InitCriteria(o)
    /\ InitLater

SpecCriteria == InitK /\ [][NextCriteria]_vars

SpecMut == Init /\ [][NextMut]_vars

SpecOrg == Init /\ [][NextOrg]_vars

SpecAtt == Init /\ [][NextAtt]_vars

\* the callbacks and events of downloadAttachment that the library and the
\* event loop deliver: every one that is due is eventually delivered
AttDelivery ==
    \/ \E err \in ErrArgs(AttErrors) : AttOpenBoxCb(err)
    \/ \E err \in ErrArgs(AttErrors), box \in AttMailboxes : AttSearchCb(err, box)
    \/ \E n \in SeqNos : AttFetchMessage(n)
    \/ \E n \in SeqNos : AttBodyEnd(n)
    \/ \E n \in SeqNos : AttParseOk(n) \/ AttParseFail(n)
    \/ AttFetchEnd

SpecAttLive == Init /\ [][NextAtt]_vars /\ WF_vars(AttDelivery)

InitT ==
    /\ InitFetch
    /\ InitConn(DefaultEmail)
    /\ InitCriteria(NoFilter)
    /\ InitMut
    /\ InitOrg
    /\ InitAtt
    /\ InitPair
    /\ \E e \in CredValues, p \in CredValues : InitTool(e, p)

SpecTool == InitT /\ [][NextTool]_vars

InitS ==
    /\ InitFetch
    /\ \E e \in Emails : InitConn(e)
    /\ InitCriteria(NoFilter)
    /\ InitMut
    /\ InitOrg
    /\ InitAtt
    /\ InitPair
    /\ InitTool(Some(SubSeq(CredChars, 1, 5)), Some(SubSeq(CredChars, 1, MaxCredLen)))

SpecSess == InitS /\ [][NextSess]_vars

SpecPair == Init /\ [][NextPair]_vars

(***************************************************************************)
(* Properties of the fetch pipeline (Spec).                                *)
(***************************************************************************)
Fetched == Range(messageIds)
FailedParses == {n \in Fetched : msgState[n] = "failed"}
AllParsed == \A n \in Fetched : msgState[n] \in {"pushed", "failed"}

\* C1: when a batch of k fetched messages of which f fail to parse has been
\* processed without a fetch error, the operation has resolved and the list
\* it resolved with holds exactly k - f records.
C1_BatchOmitsOnlyFailedParses ==
    (pc = "fetch" /\ ~fetchErr /\ fetchEnd /\ AllParsed)
        => /\ promise = "resolved"
           /\ Len(result) = Len(messageIds) - Cardinality(FailedParses)

\* the last n elements of a sequence
LastN(s, n) == SubSeq(s, Len(s) - n + 1, Len(s))

\* C2: getMessages(limit = N) on a mailbox whose search matches at least N
\* identifiers resolves with exactly N messages, those of the last N matched
\* identifiers.
C2_ReturnsLastNMatches ==
    (op = "getMessages" /\ pc = "fetch" /\ promise = "resolved"
        /\ Len(results) >= limit)
        => /\ Len(result) = limit
           /\ Range(SubSeq(origin, 1, Len(result)))
                  = Range(LastN(results, limit))

FullyFormed(m) ==
    /\ m.id # None
    /\ m.from # None
    /\ m.to # None
    /\ m.subject # None
    /\ m.body # None
    /\ m.date # None
    /\ m.flags # None

\* C3: every record of the result list is fully formed and comes from a
\* message whose parse finished without error; a message that is still
\* parsing or failed to parse has no record.
C3_RecordsFullyFormed ==
    /\ Len(origin) = Len(messages)
    /\ \A i \in 1..Len(messages) :
          FullyFormed(messages[i]) /\ msgState[origin[i]] = "pushed"
    /\ \A i \in 1..Len(result) : FullyFormed(result[i])
    /\ \A n \in SeqNos :
          msgState[n] # "pushed" => ~(\E i \in 1..Len(origin) : origin[i] = n)

\* a mail without any property was normalised next to a failed parse
C3_Witness ==
    /\ \E i \in 1..Len(messages) :
          messages[i].subject = Some("") /\ messages[i].id = Some(<<"seqno", 1>>)
    /\ \E n \in Fetched : msgState[n] = "failed"
    /\ promise = "resolved"

\* C4: after the fetch was issued the operation resolves only at the fetch
\* 'end' event, and a fetch 'error' event before 'end' rejects it with that
\* error whatever was parsed before.
C4_SettlesOnlyOnEndOrError ==
    /\ (fetchCalls > 0 /\ promise = "resolved") => (fetchEnd /\ ~fetchErr)
    /\ fetchErr => (promise = "rejected" /\ rejection = "fetchError")

\* a fetch error after a message was parsed, followed by 'end'
C4_Witness ==
    /\ fetchErr /\ fetchEnd
    /\ Len(messages) > 0
    /\ promise = "rejected"

\* C5: a search that matches no identifier resolves the operation with an
\* empty list and no fetch command is issued.
C5_NoMatchResolvesEmpty ==
    (searchReply \in {"null", "ids"} /\ Len(results) = 0)
        => /\ promise = "resolved"
           /\ Len(result) = 0
           /\ fetchCalls = 0
           /\ pc = "done"
           /\ \A n \in SeqNos : msgState[n] = "none"

\* searchMessages received an empty identifier list
C5_Witness ==
    /\ op = "searchMessages"
    /\ searchReply = "ids"
    /\ Len(results) = 0
    /\ promise = "resolved"

(***************************************************************************)
(* Properties of the connection manager (SpecConn).                        *)
(***************************************************************************)
\* the part of an address before its first '@'
LocalPartOf(e) ==
    IF \E i \in 1..Len(e) : e[i] = "@"
    THEN SubSeq(e, 1, (CHOOSE i \in 1..Len(e) :
                          e[i] = "@" /\ \A j \in 1..(i - 1) : e[j] # "@") - 1)
    ELSE e
HasLocalPart(e) == Len(e) > 0 /\ e[1] # "@"

FirstAttemptFailed ==
    firstErr # None /\ firstErr[1].during = "connecting"

\* C6: connect() issues at most two imap.connect() calls, the first as the
\* local part of the address; the second, as the full address, is issued
\* exactly when the first attempt failed with a credential error; any
\* other failure of the first attempt, and a failure of the second,
\* reject without a further attempt.
C6_AtMostOneRetry ==
    /\ Len(attempts) <= 2
    /\ (Len(attempts) >= 1 /\ HasLocalPart(email))
          => attempts[1] = LocalPartOf(email)
    /\ Len(attempts) = 2
          <=> (FirstAttemptFailed /\ CredentialFailure(firstErr[1].message))
    /\ Len(attempts) = 2 => attempts[2] = email
    /\ (FirstAttemptFailed /\ ~CredentialFailure(firstErr[1].message))
          => (connPromise = "rejected" /\ sock = "closed")
    /\ (connPromise = "rejected" /\ Len(attempts) = 2)
          => (sock = "closed" /\ onError = "none")

\* the retry with the full address failed as well
C6_Witness ==
    /\ Len(attempts) = 2
    /\ attempts[1] = <<"j", "o">>
    /\ connPromise = "rejected"

\* C7: testConnection starts connect, disconnect and the raced SMTP
\* verification in that order, each after the previous one resolved; it
\* returns success only if the verification resolved before the timeout
\* fired, returns error for every failure, and never starts the
\* verification when connect failed.
C7_TestConnectionSteps ==
    /\ tcLog = SubSeq(<<"connect", "disconnect", "verify">>, 1, Len(tcLog))
    /\ Len(tcLog) >= 2 => connPromise = "resolved"
    /\ (Len(tcLog) >= 3 \/ verify # "none") => discPromise = "resolved"
    /\ tcResult.status = "success"
          => /\ connPromise = "resolved" /\ discPromise = "resolved"
             /\ Len(raceLog) >= 1 /\ raceLog[1] = "verifyResolved"
    /\ tcPc = "done" => tcResult.status \in {"success", "error"}
    /\ (tcPc = "done" /\ (connPromise = "rejected"
                            \/ raceLog[1] # "verifyResolved"))
          => tcResult.status = "error"
    /\ connPromise = "rejected" => verify = "none"

\* the timeout fired first and the verification resolved afterwards
C7_Witness ==
    /\ tcPc = "done"
    /\ raceLog = <<"timeout", "verifyResolved">>
    /\ tcResult.status = "error"

HasHint(msg) ==
    \/ Includes(msg, "Troubleshooting: app-specific password")
    \/ Includes(msg, "Troubleshooting: internet connection")
    \/ Includes(msg, "Please check your app-specific password and ensure two-factor authentication is enabled. ")

CaughtMessage == IF connPromise = "rejected" THEN connRejection ELSE raceErr

C9_DisconnectAfterEnd ==
    /\ discPromise = "resolved" => endAfterClose
    /\ discPromise \in {"none", "pending", "resolved"}
    /\ onEnd => (discPromise = "pending" /\ closePending)

\* disconnect() of testConnection resolved at the 'end' event
C9_Witness ==
    /\ discPromise = "resolved"
    /\ endAfterClose
    /\ tcPc = "disconnect"

(***************************************************************************)
(* Properties of the translator (SpecCriteria).                            *)
(***************************************************************************)
HasTerm(terms, head) == \E i \in 1..Len(terms) : terms[i][1] = head

\* a filter field that is set (for a date, set to a valid date)
FieldSet(o) ==
    \/ o.unreadOnly
    \/ o.dateFrom \in {"2024-01-15", "2024-03-01"}
    \/ o.dateTo \in {"2024-01-15", "2024-03-01"}
    \/ o.fromEmail \notin {Undef, ""}
    \/ o.query \notin {Undef, ""}

\* C10: the translator emits 'ALL' exactly when no field produced a term,
\* and then 'ALL' is the only term; a filter with no field set yields
\* exactly ['ALL'].
C10_AllOnlyWhenNoOtherTerm ==
    critDone
        => /\ Len(critTerms) >= 1
           /\ HasTerm(critTerms, "ALL") => Len(critTerms) = 1
           /\ HasTerm(critTerms, "ALL") <=> ~FieldSet(critOptions)
           /\ critOptions = NoFilter
                 => (Len(critTerms) = 1 /\ critTerms[1] = <<"ALL">>)

\* the filter with no field set was translated
C10_Witness ==
    /\ critDone
    /\ critOptions = NoFilter
    /\ critTerms = <<<<"ALL">>>>

\* position of a term in the fixed order of the translator
TermRank(head) ==
    CASE head = "UNSEEN" -> 1
      [] head = "SINCE" -> 2
      [] head = "BEFORE" -> 3
      [] head = "FROM" -> 4
      [] head = "OR" -> 5
      [] OTHER -> 0

ValidDateArg(d) == d \in {"2024-01-15", "2024-03-01"}
NonEmptyArg(v) == v \notin {Undef, ""}

DateOfArg(d) == IF d = "2024-01-15" THEN 1 ELSE 2

\* C12: a valid dateFrom (dateTo) yields one SINCE (BEFORE) term with that
\* date; an invalid date string yields no term for its field and the
\* translation is the one of the filter without that field, so the
\* remaining terms, or the catch-all, are emitted.
C12_InvalidDatesIgnored ==
    critDone
        => /\ ValidDateArg(critOptions.dateFrom)
                 => \E i \in 1..Len(critTerms) :
                       /\ critTerms[i][1] = "SINCE"
                       /\ critTerms[i][2] = DateOfArg(critOptions.dateFrom)
           /\ ValidDateArg(critOptions.dateTo)
                 => \E i \in 1..Len(critTerms) :
                       /\ critTerms[i][1] = "BEFORE"
                       /\ critTerms[i][2] = DateOfArg(critOptions.dateTo)
           /\ \A i \in 1..Len(critTerms) : \A j \in 1..Len(critTerms) :
                 (critTerms[i][1] = critTerms[j][1]) => i = j
           /\ critOptions.dateFrom = "not-a-date"
                 => /\ ~HasTerm(critTerms, "SINCE")
                    /\ Len(critTerms) =
                          Len(SearchCriteriaOf(
                                [critOptions EXCEPT !.dateFrom = Undef]))
           /\ critOptions.dateTo = "not-a-date"
                 => /\ ~HasTerm(critTerms, "BEFORE")
                    /\ Len(critTerms) =
                          Len(SearchCriteriaOf(
                                [critOptions EXCEPT !.dateTo = Undef]))
           /\ Len(critTerms) >= 1

\* an invalid dateFrom was dropped next to a valid dateTo
C12_Witness ==
    /\ critDone
    /\ critOptions.dateFrom = "not-a-date"
    /\ critOptions.dateTo = "2024-03-01"
    /\ Len(critTerms) = 1
    /\ critTerms[1][1] = "BEFORE"

\* the name consists of whitespace only (the empty name included)
BlankName(n) == \A i \in 1..Len(n) : n[i] = " "

\* apart from surrounding whitespace the name is one protected mailbox name
ProtectedName(n) ==
    \E i \in 1..Len(n) :
        /\ n[i] \in {"INBOX", "Sent", "Trash", "Drafts", "Junk"}
        /\ \A j \in 1..Len(n) : j # i => n[j] = " "

\* t is n without its leading and trailing whitespace
IsTrimmed(t, n) ==
    \E a \in 1..Len(n) : \E b \in a..Len(n) :
        /\ t = SubSeq(n, a, b)
        /\ n[a] # " "
        /\ n[b] # " "
        /\ \A j \in 1..Len(n) : (j < a \/ j > b) => n[j] = " "

\* C13: deleteMailbox with a blank name or a protected name has returned
\* status 'error' and issued no protocol call; with any other name it has
\* issued exactly one call, delBox with the trimmed name.
C13_DeleteMailboxGuards ==
    mOp = "deleteMailbox"
        => IF BlankName(mArgs.name) \/ ProtectedName(mArgs.name)
           THEN /\ mCalls = <<>>
                /\ mPromise = "resolved"
                /\ mResult.status = "error"
           ELSE /\ Len(mCalls) = 1
                /\ mCalls[1].cmd = "delBox"
                /\ IsTrimmed(mCalls[1].name, mArgs.name)

\* a protected name padded with whitespace was refused without a call
C13_Witness ==
    /\ mOp = "deleteMailbox"
    /\ mArgs.name = <<" ", "Junk", " ">>
    /\ mPromise = "resolved"
    /\ mResult.status = "error"
    /\ mCalls = <<>>

\* C14: whenever a step of a mutation operation has failed, the operation
\* has returned (resolved with) a result of status 'error'; it has not
\* rejected.
C14_FailuresReturnErrorResult ==
    mFailedAt \in {"openBox", "search", "mutate", "expunge", "addBox", "delBox"}
        => /\ mPromise = "resolved"
           /\ mResult.status = "error"

StateChanging == {"addFlags", "delFlags", "move", "expunge", "addBox", "delBox"}

CountStateChanging(calls) ==
    Cardinality({i \in 1..Len(calls) : calls[i].cmd \in StateChanging})

\* the operation ran to its end without any failure and matched something
Succeeded ==
    /\ mPromise = "resolved"
    /\ mFailedAt = "none"

\* C15: moveMessages, setFlags and markAsRead issue openBox (read-write),
\* then search, then the state-changing call, in that order; exactly one
\* state-changing call has been issued when the operation succeeded, and
\* none when openBox failed, the search failed or the search matched
\* nothing.
C15_OpenSearchThenOneChange ==
    mOp \in {"moveMessages", "setFlags", "markAsRead"}
        => /\ Len(mCalls) \in 1..3
           /\ mCalls[1].cmd = "openBox"
           /\ mCalls[1].box = mArgs.mailbox
           /\ mCalls[1].readOnly = FALSE
           /\ Len(mCalls) >= 2 => mCalls[2].cmd = "search"
           /\ Len(mCalls) >= 3
                 => /\ mCalls[3].cmd \in {"addFlags", "delFlags", "move"}
                    /\ Len(mCalls[3].targets) > 0
           /\ Succeeded => CountStateChanging(mCalls) = 1
           /\ mFailedAt \in {"openBox", "search", "empty"}
                 => /\ CountStateChanging(mCalls) = 0
                    /\ mPc = "done"

\* setFlags with action remove succeeded with its single delFlags call
C15_Witness ==
    /\ mOp = "setFlags"
    /\ Succeeded
    /\ mResult.status = "success"
    /\ Len(mCalls) = 3
    /\ mCalls[3].cmd = "delFlags"

\* the calls an operation issues, as a function of its arguments other than
\* messageIds and of the reply res of the search
ExpectedCalls(o, args, res) ==
    <<OpenBoxCall(args.mailbox), SearchCall>>
    \o (IF o = "moveMessages" THEN <<MoveCall(res, args.dest)>>
        ELSE IF o = "setFlags"
             THEN <<FlagsCall(IF args.action = "add" THEN "addFlags" ELSE "delFlags",
                              res, args.flags)>>
        ELSE IF o = "markAsRead" THEN <<FlagsCall("addFlags", res, <<"\\Seen">>)>>
        ELSE <<FlagsCall("addFlags", res, <<"\\Deleted">>), ExpungeCall>>)

IsPrefix(s, t) == Len(s) <= Len(t) /\ s = SubSeq(t, 1, Len(s))

HasCall(cmd) == \E i \in 1..Len(mCalls) : mCalls[i].cmd = cmd

\* C17: deleteMessages issues expunge only after the \Deleted marking was
\* issued and did not fail; a failed marking and a failed expunge are
\* reported with different messages; status 'success' is returned only
\* after both calls were issued and neither failed.
C17_TwoPhaseDelete ==
    mOp = "deleteMessages"
        => /\ HasCall("expunge")
                 => /\ Len(mCalls) = 4
                    /\ mCalls[3].cmd = "addFlags"
                    /\ mCalls[3].flags = <<"\\Deleted">>
                    /\ mCalls[4].cmd = "expunge"
                    /\ mFailedAt # "mutate"
           /\ mFailedAt = "mutate"
                 => /\ ~HasCall("expunge")
                    /\ mResult.status = "error"
                    /\ mResult.message[1] = "Failed to mark messages for deletion: "
           /\ mFailedAt = "expunge"
                 => /\ mResult.status = "error"
                    /\ mResult.message[1] = "Failed to expunge deleted messages: "
           /\ mResult.status = "success"
                 => /\ Len(mCalls) = 4
                    /\ mFailedAt = "none"
                    /\ mPc = "done"

\* the marking succeeded and the expunge failed
C17_Witness ==
    /\ mOp = "deleteMessages"
    /\ mFailedAt = "expunge"
    /\ Len(mCalls) = 4
    /\ mResult.status = "error"

\* C18: with dryRun false, the result of a rule whose move failed reports
\* moved false, a result reports moved true only if the move of its rule
\* succeeded, and after a failed move the remaining rules are processed.
C18_MovedOnlyIfMoveSucceeded ==
    /\ \A k \in 1..Len(orgMoveLog) :
          /\ orgMoveLog[k].rule <= Len(orgResults)
          /\ orgMoveLog[k].outcome # "success"
                => ~orgResults[orgMoveLog[k].rule].moved
    /\ \A i \in 1..Len(orgResults) :
          orgResults[i].moved
              => \E k \in 1..Len(orgMoveLog) :
                    /\ orgMoveLog[k].rule = i
                    /\ orgMoveLog[k].outcome = "success"
    /\ (orgPc = "done" /\ orgReturn.status = "success")
          => Len(orgResults) = Len(orgRules)

\* a condition field is present: given and not the empty string
PresentField(x) == x # None /\ x[1] # <<>>

\* hay contains needle when both are lowercased
ContainsLowercased(hay, needle) ==
    \E off \in 0..(Len(hay) - Len(needle)) :
        \A k \in 1..Len(needle) : LowerOf(hay[off + k]) = LowerOf(needle[k])

\* the matching rule as the claim states it
MatchesAsStated(rule, message) ==
    \/ /\ PresentField(rule.condition.fromContains)
       /\ ContainsLowercased(message.from, rule.condition.fromContains[1])
    \/ /\ PresentField(rule.condition.subjectContains)
       /\ ContainsLowercased(message.subject, rule.condition.subjectContains[1])

MatchSet(rule) ==
    {i \in 1..Len(orgMessages) : MatchesAsStated(rule, orgMessages[i])}

\* C19: under dryRun no moveMessages call and no protocol call is made, every
\* rule's result reports moved false, and every result carries the number of
\* fetched messages its rule matches, whatever the other rules match.
C19_DryRunMovesNothing ==
    (orgPc # "idle" /\ orgDryRun)
        => /\ mOp = "none"
           /\ mCalls = <<>>
           /\ orgMoveLog = <<>>
           /\ \A i \in 1..Len(orgResults) :
                 /\ ~orgResults[i].moved
                 /\ orgResults[i].matchedMessages
                       = Cardinality(MatchSet(orgRules[i]))
           /\ (orgPc = "done" /\ orgReturn.status = "success")
                 => Len(orgResults) = Len(orgRules)

\* ids recorded in a result
RecordedIds(r) ==
    IF r.messages = None THEN {}
    ELSE {r.messages[1][k].id : k \in 1..Len(r.messages[1])}

\* a dry run over two rules that both match message 1
C19_Witness ==
    /\ orgPc = "done"
    /\ orgDryRun
    /\ Len(orgResults) = 2
    /\ orgRules[1] # orgRules[2]
    /\ "1" \in RecordedIds(orgResults[1]) \cap RecordedIds(orgResults[2])
    /\ mCalls = <<>>

\* C20: the messages recorded for a rule are exactly the fetched messages
\* that match it by the from field or by the subject field, compared in
\* lowercase; a rule without a present field records none; the record of a
\* rule does not depend on the other rules.
C20_MatchIsEitherField ==
    \A i \in 1..Len(orgResults) :
        LET rule == orgRules[i]
            r == orgResults[i]
        IN /\ r.rule = rule.name
           /\ r.matchedMessages = Cardinality(MatchSet(rule))
           /\ RecordedIds(r) = {orgMessages[k].id : k \in MatchSet(rule)}
           /\ r.messages # None
                 => /\ Len(r.messages[1]) = r.matchedMessages
                    /\ \A k \in 1..Len(r.messages[1]) :
                          r.messages[1][k].destinationMailbox
                              = rule.action.moveToMailbox
           /\ (~PresentField(rule.condition.fromContains)
               /\ ~PresentField(rule.condition.subjectContains))
                 => r.matchedMessages = 0

\* message 2 matches the two-field rule by its subject alone and is also
\* recorded under the subject rule
C20_Witness ==
    /\ orgPc = "done"
    /\ Len(orgResults) = 2
    /\ orgRules[1].name = "either"
    /\ orgRules[2].name = "subject"
    /\ "2" \in RecordedIds(orgResults[1]) \cap RecordedIds(orgResults[2])
    /\ orgResults[1].matchedMessages = 2

\* sequence numbers a logged move relocated out of the source mailbox
Relocated(e) == {e.targets[j] : j \in 1..Len(e.targets)}

\* C21: when the source mailbox still holds exactly the fetched messages,
\* every message relocated by a successful move of autoOrganize is one the
\* rule of that move matched and it went to that rule's destination, so a
\* message matched by no rule stays in the source mailbox.
C21_OnlyMatchedMessagesMove ==
    \A k \in 1..Len(orgMoveLog) :
        LET e == orgMoveLog[k] IN
        (e.outcome = "success" /\ Len(e.found) = Len(orgMessages))
            => /\ Relocated(e) \subseteq MatchSet(orgRules[e.rule])
               /\ e.dest = orgRules[e.rule].action.moveToMailbox

\* C22: autoOrganize always returns a result; the result has status 'error',
\* with an empty results list, exactly when the awaited getMessages rejected,
\* and status 'success' otherwise, also when a move failed.
C22_ErrorOnlyWhenFetchFails ==
    /\ orgPc = "done"
          => /\ orgReturn.status \in {"success", "error"}
             /\ orgReturn.status = "error" <=> orgFetch = "rejected"
             /\ orgReturn.status = "error" => orgReturn.results = <<>>
             /\ orgReturn.status = "success"
                   => /\ orgReturn.results = orgResults
                      /\ Len(orgResults) = Len(orgRules)
    /\ orgPc # "done" => orgReturn.status = "none"

\* the call returned 'success' although the move of a rule had failed
C22_Witness ==
    /\ orgPc = "done"
    /\ orgReturn.status = "success"
    /\ \E k \in 1..Len(orgMoveLog) : orgMoveLog[k].outcome = "error"

\* the messages of the mailbox that the requested id designates
Targets ==
    {n \in 1..Len(aBox) :
        \/ aBox[n].messageId = Some(aArgs.messageId)
        \/ ToString(n) = aArgs.messageId}

\* the fetch did not fail and no message failed to parse
CleanFetch ==
    /\ aPc = "fetch"
    /\ ~aFetchErr
    /\ \A j \in 1..Len(aBox) : aMsgState[j] # "failed"

\* C23: when the requested message exists and attachmentIndex is not below
\* its attachment count, downloadAttachment resolves with status 'error', no
\* attachment payload, and the index-out-of-range message (the
\* no-attachments message when the count is 0).
C23_IndexOutOfRangeIsError ==
    (/\ aPromise = "resolved"
     /\ CleanFetch
     /\ Targets # {}
     /\ \A n \in Targets : aArgs.attachmentIndex >= Len(aBox[n].attachments))
        => /\ aResult.status = "error"
           /\ aResult.attachment = None
           /\ \E n \in Targets :
                 IF Len(aBox[n].attachments) = 0
                 THEN aResult.message = <<"No attachments found in the message">>
                 ELSE /\ aResult.message[1] = "Attachment index "
                      /\ aResult.message[3] = " out of range. Message has "

\* decoding of base64 characters to bytes
RECURSIVE Base64Decode(_)
Base64Decode(d) ==
    IF Len(d) < 4 THEN <<>>
    ELSE (IF d[3] = Pad THEN <<d[1] * 4 + d[2] \div 16>>
          ELSE IF d[4] = Pad
          THEN <<d[1] * 4 + d[2] \div 16, (d[2] % 16) * 16 + d[3] \div 4>>
          ELSE <<d[1] * 4 + d[2] \div 16,
                 (d[2] % 16) * 16 + d[3] \div 4,
                 (d[3] % 4) * 64 + d[4]>>)
         \o Base64Decode(SubSeq(d, 5, Len(d)))

\* C24: found is set exactly for a parsed message whose message-id or
\* sequence number equals the requested id; when the mailbox holds no such
\* message the call resolves with status 'error' and the not-found message,
\* and when the one such message has the requested index it resolves with
\* status 'success' and the base64 encoding of that attachment.
C24_TargetByIdOrSeqno ==
    /\ aFound <=> \E n \in Targets : aMsgState[n] = "done"
    /\ (aPromise = "resolved" /\ CleanFetch)
          => /\ Targets = {}
                   => /\ aResult.status = "error"
                      /\ aResult.message[1] = "Message with ID '"
             /\ \A n \in Targets :
                   (/\ Targets = {n}
                    /\ aArgs.attachmentIndex >= 0
                    /\ aArgs.attachmentIndex < Len(aBox[n].attachments))
                       => /\ aResult.status = "success"
                          /\ aResult.attachment # None
                          /\ Base64Decode(aResult.attachment[1].data)
                                = aBox[n].attachments[aArgs.attachmentIndex + 1].content

\* C25: in every successful result the size field is the number of bytes the
\* data field decodes to.
C25_SizeIsDecodedLength ==
    aResult.status = "success"
        => aResult.attachment[1].size
              = Len(Base64Decode(aResult.attachment[1].data))

\* an attachment of four bytes was returned, its data ending in padding
C25_Witness ==
    /\ aResult.status = "success"
    /\ aResult.attachment[1].size = 4
    /\ Len(aResult.attachment[1].data) = 8
    /\ aResult.attachment[1].data[8] = Pad

\* the call was made while no session existed: the credentials were absent
\* or the startup connect had failed
NoSessionAtCall == tPc # "idle" /\ tStartup \in {"absent", "failed"}

\* C26: a call of any tool other than check_config made while no session
\* exists (credentials absent, or startup connect failed) ends in the
\* McpError 'iCloud Mail not configured ...' and invokes no client method.
C26_NoSessionMeansNotConfigured ==
    (NoSessionAtCall /\ tName \in ToolSurface \ {"check_config"})
        => /\ tPc = "done"
           /\ tOutcome.kind = "McpError"
           /\ tOutcome.code = "InvalidRequest"
           /\ tOutcome.message = NotConfiguredMsg
           /\ tInvoked = <<>>

\* C27: whatever is raised while a tool executes leaves the handler as an
\* McpError: a raised McpError keeps its code and message, anything else
\* becomes an InternalError whose message names the tool and carries the
\* original message; a call that raises nothing returns a result.
C27_EveryExceptionLeavesAsMcpError ==
    tPc = "done"
        => IF tRaised = None
           THEN tOutcome.kind = "result"
           ELSE /\ tOutcome.kind = "McpError"
                /\ tRaised[1].type = "McpError"
                      => /\ tOutcome.code = tRaised[1].code
                         /\ tOutcome.message = tRaised[1].message
                /\ tRaised[1].type # "McpError"
                      => /\ tOutcome.code = "InternalError"
                         /\ tOutcome.message
                               = <<"Error executing tool ", tName, ": ">>
                                     \o tRaised[1].message

\* an exception raised after a client method was invoked was wrapped
C27_Witness ==
    /\ tPc = "done"
    /\ tRaised # None
    /\ tRaised[1].type = "Error"
    /\ tOutcome.code = "InternalError"
    /\ tInvoked # <<>>

\* C28: a call of a tool of the tool surface is never answered with the
\* 'Unknown tool' error.
C28_SurfaceToolsAreDispatched ==
    (tPc # "idle" /\ tName \in ToolSurface)
        => ~(tOutcome.kind = "McpError" /\ tOutcome.code = "MethodNotFound")

\* the mask of one credential as stated: 'Not set', '***', or the first four
\* characters and '***'; never the value, nothing beyond the fourth character
MaskedAsStated(v, out) ==
    IF v = None \/ v = Some(<<>>) THEN out = <<"Not set">>
    ELSE /\ Len(v[1]) <= 4 => out = <<"***">>
         /\ Len(v[1]) > 4
               => /\ Len(out) = 5
                  /\ \A i \in 1..4 : out[i] = v[1][i]
                  /\ out[5] = "***"
         /\ out # v[1]
         /\ \A i \in 5..Len(v[1]) : \A j \in 1..Len(out) : out[j] # v[1][i]

\* C30: the values check_config reports are 'Not set' for an unset or empty
\* credential, '***' for one of 1 to 4 characters, and the first four
\* characters followed by '***' for a longer one; the full value and the
\* characters after the fourth never appear.
C30_MaskRevealsAtMostFour ==
    (tPc = "done" /\ tName = "check_config")
        => /\ tOutcome.kind = "result"
           /\ tOutcome.config # None
           /\ MaskedAsStated(envEmail, tOutcome.config[1].email.value)
           /\ MaskedAsStated(envPassword, tOutcome.config[1].appPassword.value)

\* check_config reported a password of more than four characters and an
\* email of exactly four
C30_Witness ==
    /\ tPc = "done" /\ tName = "check_config"
    /\ envPassword # None /\ Len(envPassword[1]) = MaxCredLen
    /\ tOutcome.config[1].appPassword.value = <<"k", "e", "y", "w", "***">>
    /\ envEmail # None /\ Len(envEmail[1]) = 4
    /\ tOutcome.config[1].email.value = <<"***">>

\* one step of the pipeline treats the result list as stated: a new record
\* arrives at the end with empty flags; otherwise only the flags of the last
\* record may change, to flags carried by an attributes event being handled
FlagsStep ==
    LET len == Len(messages) IN
    \/ /\ Len(messages') = len + 1
       /\ SubSeq(messages', 1, len) = messages
       /\ messages'[len + 1].flags = Some(<<>>)
    \/ /\ Len(messages') = len
       /\ messages' # messages
             => /\ len > 0
                /\ \E n \in SeqNos : ~attrSeen[n] /\ attrSeen'[n]
                /\ messages'[len].flags \in AttrFlags \ {None}
                /\ messages' = [messages EXCEPT ![len].flags = messages'[len].flags]

\* C29: every record is appended with empty flags; an attributes event that
\* carries flags overwrites the flags of the record that is last in the
\* list when the event is handled and changes no other record; while the
\* list is empty no event changes it.
C29_FlagsGoToLastRecord == [][FlagsStep]_vars

\* the last of two records carries flags although the attributes event of
\* its own message has not been handled, and the first record, whose event
\* was handled, still has empty flags
C29_Witness ==
    /\ Len(messages) = 2
    /\ messages[2].flags = Some(<<"\\Seen">>)
    /\ ~attrSeen[origin[2]]
    /\ messages[1].flags = Some(<<>>)
    /\ attrSeen[origin[1]]

IsSuffix(s, t) == Len(s) <= Len(t) /\ s = SubSeq(t, Len(t) - Len(s) + 1, Len(t))

\* C31: the identifiers handed to imap.fetch are at most limit many, for
\* every limit >= 0, and they are a suffix of the matched identifiers.
C31_FetchesAtMostLimit ==
    fetchCalls > 0
        => /\ Len(messageIds) <= limit
           /\ IsSuffix(messageIds, results)

\* the sum of the sizes of the match sets of the first k rules
RECURSIVE SumOfMatchSets(_)
SumOfMatchSets(k) ==
    IF k = 0 THEN 0
    ELSE Cardinality(MatchSet(orgRules[k])) + SumOfMatchSets(k - 1)

\* C32: a successful autoOrganize returns one entry per rule, in rule order;
\* matchedMessages is the size of the rule's match set; a nonzero count is
\* the length of the entry's messages list, whose elements carry the rule's
\* destination; the total of the summary message is the sum of the counts.
C32_OneEntryPerRuleAndTotal ==
    orgReturn.status = "success"
        => /\ Len(orgReturn.results) = Len(orgRules)
           /\ \A k \in 1..Len(orgRules) :
                 LET r == orgReturn.results[k] IN
                 /\ r.rule = orgRules[k].name
                 /\ r.matchedMessages = Cardinality(MatchSet(orgRules[k]))
                 /\ r.matchedMessages > 0
                       => /\ r.messages # None
                          /\ Len(r.messages[1]) = r.matchedMessages
                          /\ \A j \in 1..Len(r.messages[1]) :
                                r.messages[1][j].destinationMailbox
                                   = orgRules[k].action.moveToMailbox
           /\ orgReturn.message[2] = ToString(SumOfMatchSets(Len(orgRules)))

\* two rules matched the same message and the total counts it twice
C32_Witness ==
    /\ orgReturn.status = "success"
    /\ ~orgDryRun
    /\ Len(orgReturn.results) = 2
    /\ RecordedIds(orgReturn.results[1]) \cap RecordedIds(orgReturn.results[2]) # {}
    /\ orgReturn.message[2]
          = ToString(orgReturn.results[1].matchedMessages
                        + orgReturn.results[2].matchedMessages)

\* C33: when getMessages/searchMessages have resolved after a fetch, no
\* parse of a fetched message is still pending and the list holds exactly
\* the records the caller received: nothing is appended after resolution.
C33_ResolvesAfterAllParses ==
    (pc = "fetch" /\ promise = "resolved")
        => /\ \A n \in Fetched : msgState[n] # "parsing"
           /\ messages = result

\* C34: downloadAttachment resolves with the message-not-found error only
\* when no message of the mailbox has the requested message-id or sequence
\* number, however the fetch 'end' event interleaves with the parses (no
\* parse having failed).
C34_NotFoundOnlyWithoutTarget ==
    (/\ aPromise = "resolved"
     /\ aResult.status = "error"
     /\ aResult.message[1] = "Message with ID '"
     /\ \A j \in 1..Len(aBox) : aMsgState[j] # "failed")
        => Targets = {}

\* C35: every call of downloadAttachment resolves once its callbacks and
\* events have been delivered, whatever the messageId and the integer
\* attachmentIndex (negative ones included).
C35_EveryCallResolves == (aPromise = "pending") ~> (aPromise = "resolved")

\* C36: the flags of every record of the list, and of every record the
\* caller received, are empty or the flags the server holds for the message
\* the record was built from.
C36_FlagsBelongToOwnMessage ==
    /\ \A i \in 1..Len(messages) :
          messages[i].flags \in {Some(<<>>), Some(ServerFlags(origin[i]))}
    /\ promise = "resolved"
          => \A i \in 1..Len(result) :
                result[i].flags \in {Some(<<>>), Some(ServerFlags(origin[i]))}

\* C37: a call of a session tool made while the startup connect() is still
\* in progress is answered with the 'not configured' McpError and invokes
\* no client method.
C37_NoDispatchWhileConnecting ==
    (tPc # "idle" /\ tStartup = "connecting" /\ tName \in SessionCases)
        => /\ tInvoked = <<>>
           /\ tOutcome.kind = "McpError"
           /\ tOutcome.code = "InvalidRequest"
           /\ tOutcome.message = NotConfiguredMsg

\* C38: after a test_connection call on the session connected at startup
\* has returned its success result, the IMAP connection is open, and the
\* connectionStatus check_config reports is 'Connected' exactly when it is
\* open.
C38_TestConnectionKeepsSession ==
    (tPc = "done" /\ tName = "test_connection" /\ tcResult.status = "success")
        => /\ sock = "open"
           /\ CheckConfigResult.config[1].connectionStatus = "Connected"
                 <=> sock = "open"

\* C39: when two operations naming different mailboxes are in flight, no
\* command an operation issues after its openBox (search, move, addFlags,
\* expunge) is executed with the other operation's mailbox selected,
\* however their callbacks interleave.
C39_CommandsRunOnOwnMailbox ==
    \A o \in Operations, other \in Operations :
        (o # other /\ pPc[o] # "idle" /\ pPc[other] # "idle"
            /\ pBox[o] # pBox[other])
            => \A k \in 1..Len(pLog[o]) : pLog[o][k].box # pBox[other]

====
